---- MODULE Spec2Model ----
(***************************************************************************)
(* Transcript alignment and timestamp reconciliation.                      *)
(*                                                                         *)
(*   text-utils.js : stripPunctuation, editDistance, isFuzzyMatch,         *)
(*                   alignWhisperToOriginal (Contract B: keep the target   *)
(*                   text, fill the timing)                                *)
(*   tts.js        : addPunctuation (Contract A: keep the source timing,   *)
(*                   replace the text), batch by batch                     *)
(*                                                                         *)
(* A string is a sequence of characters; a character is an atom written as *)
(* a TLA+ string ("p", ",", "emdash", ...).  JavaScript indices are kept   *)
(* 0-based, so element k of a JavaScript array s is s[k + 1] here.         *)
(* Numbers of type double are modelled as exact rationals <<n, d>>.        *)
(***************************************************************************)
EXTENDS Integers, Sequences, FiniteSets, TLC

(***************************************************************************)
(* Characters                                                              *)
(***************************************************************************)

\* The character class of stripPunctuation's regular expression:
\* . , ! ? ; : em-dash en-dash - << >> " ' ( ) ellipsis and \s
PunctChars ==
    {".", ",", "!", "?", ";", ":", "emdash", "endash", "-", "laquo", "raquo",
     "\"", "'", "(", ")", "ellipsis", " ", "\t", "\n"}

\* String.prototype.toLowerCase on the upper-case letters the model uses
UpperToLower ==
    ("P" :> "p") @@ ("K" :> "k") @@ ("D" :> "d") @@ ("M" :> "m") @@ ("A" :> "a")

toLowerChar(c) == IF c \in DOMAIN UpperToLower THEN UpperToLower[c] ELSE c

toLowerCase(w) == [k \in 1..Len(w) |-> toLowerChar(w[k])]

(***************************************************************************)
(* stripPunctuation                                                        *)
(***************************************************************************)

\* ^[...]+ : the maximal leading run of punctuation is removed
RECURSIVE StripLeading(_)
StripLeading(w) ==
    IF Len(w) > 0 /\ Head(w) \in PunctChars THEN StripLeading(Tail(w)) ELSE w

\* Mutant: only the last character of the trailing run is removed
StripTrailingOnce(w) ==
    IF Len(w) > 0 /\ w[Len(w)] \in PunctChars THEN SubSeq(w, 1, Len(w) - 1) ELSE w

\* [...]+$ : the maximal trailing run of punctuation is removed
RECURSIVE StripTrailing(_)
StripTrailing(w) ==
    IF Len(w) > 0 /\ w[Len(w)] \in PunctChars
    THEN StripTrailing(SubSeq(w, 1, Len(w) - 1))
    ELSE w

stripPunctuation(word) == StripTrailing(StripLeading(word))

(***************************************************************************)
(* editDistance, isFuzzyMatch                                              *)
(***************************************************************************)

Min2(x, y) == IF x <= y THEN x ELSE y
Max2(x, y) == IF x >= y THEN x ELSE y
Min3(x, y, z) == Min2(x, Min2(y, z))

\* Mutant: a substitution costs 1 even when the two characters are equal
RECURSIVE EdInnerCostOne(_, _, _, _, _)
EdInnerCostOne(a, bch, prev, curr, j) ==
    IF j > Len(a) THEN curr
    ELSE LET cj   == Min3(prev[j + 1] + 1, curr[j] + 1, prev[j] + 1)
             next == Append(curr, cj)
         IN  IF Len(next) = j + 1 THEN EdInnerCostOne(a, bch, prev, next, j + 1) ELSE <<>>

\* The inner loop over j: curr holds curr[0..j-1] (as curr[1..j]) and is
\* extended by curr[j] until j > a.length.  (Len(next) = j + 1 is always true;
\* the test makes the evaluation of the row strict.)
RECURSIVE EdInner(_, _, _, _, _)
EdInner(a, bch, prev, curr, j) ==
    IF j > Len(a) THEN curr
    ELSE LET cost == IF a[j] = bch THEN 0 ELSE 1
             cj   == Min3(prev[j + 1] + 1, curr[j] + 1, prev[j] + cost)
             next == Append(curr, cj)
         IN  IF Len(next) = j + 1 THEN EdInner(a, bch, prev, next, j + 1) ELSE <<>>

\* The outer loop over i = 1..b.length with the two rows swapped at its end;
\* the result is the row called prev after the last swap.
RECURSIVE EdOuter(_, _, _, _)
EdOuter(a, b, prev, i) ==
    IF i > Len(b) THEN prev
    ELSE LET row == EdInner(a, b[i], prev, <<i>>, 1)
         IN  IF Len(row) = Len(a) + 1 THEN EdOuter(a, b, row, i + 1) ELSE <<>>

\* [a, b] = [b, a] when a is the longer string: the shorter one indexes the rows
EdShorter(a, b) == IF Len(a) > Len(b) THEN b ELSE a
EdLonger(a, b) == IF Len(a) > Len(b) THEN a ELSE b

editDistance(a, b) ==
    IF Len(a) = 0 THEN Len(b)
    ELSE IF Len(b) = 0 THEN Len(a)
    ELSE LET s == EdShorter(a, b)
             l == EdLonger(a, b)
         IN  EdOuter(s, l, [j \in 1..(Len(s) + 1) |-> j - 1], 1)[Len(s) + 1]

FuzzyMinLen == 4
FuzzyMinTolerance == 2

\* Math.floor(maxLen * 0.3)
FuzzyTolerance(maxLen) == Max2(FuzzyMinTolerance, (maxLen * 3) \div 10)

\* Mutant: short strings are not refused
isFuzzyMatchAnyLength(a, b) ==
    editDistance(a, b) <= FuzzyTolerance(Max2(Len(a), Len(b)))

\* Mutant: only the length of a is tested
isFuzzyMatchFirstOnly(a, b) ==
    IF Len(a) < FuzzyMinLen THEN FALSE
    ELSE editDistance(a, b) <= FuzzyTolerance(Max2(Len(a), Len(b)))

isFuzzyMatch(a, b) ==
    IF Len(a) < FuzzyMinLen \/ Len(b) < FuzzyMinLen THEN FALSE
    ELSE editDistance(a, b) <= FuzzyTolerance(Max2(Len(a), Len(b)))

\* stripPunctuation(w).toLowerCase()
BaseOf(w) == toLowerCase(stripPunctuation(w))

\* Mutant: two empty normalized strings are not a match
IsMatchNonEmpty(x, y) == x # <<>> /\ (x = y \/ isFuzzyMatch(x, y))

\* x === y || isFuzzyMatch(x, y), on two normalized strings
IsMatch(x, y) == x = y \/ isFuzzyMatch(x, y)

(***************************************************************************)
(* Rational numbers <<n, d>>, d > 0, in lowest terms                       *)
(***************************************************************************)

Abs(x) == IF x < 0 THEN -x ELSE x

RECURSIVE Gcd(_, _)
Gcd(x, y) == IF y = 0 THEN x ELSE Gcd(y, x % y)

RNorm(n, d) ==
    LET g == Gcd(Abs(n), Abs(d))
        s == IF d < 0 THEN -1 ELSE 1
    IN  <<(s * n) \div g, (s * d) \div g>>

R(n) == <<n, 1>>
RAdd(x, y) == RNorm(x[1] * y[2] + y[1] * x[2], x[2] * y[2])
RSub(x, y) == RNorm(x[1] * y[2] - y[1] * x[2], x[2] * y[2])
RMul(x, y) == RNorm(x[1] * y[1], x[2] * y[2])
RDivInt(x, k) == RNorm(x[1], x[2] * k)
RLe(x, y) == x[1] * y[2] <= y[1] * x[2]
RLt(x, y) == x[1] * y[2] < y[1] * x[2]

(***************************************************************************)
(* State                                                                   *)
(***************************************************************************)

VARIABLES
    \* alignWhisperToOriginal (Contract B)
    whisperWords,    \* argument: <<[word, start, end]>>, the timed source
    originalWords,   \* argument: <<string>>, the authoritative target
    result,          \* the array being built and returned
    wi,              \* whisper index
    oi,              \* original index
    ii,              \* index i of the interpolation loop
    pcB,             \* "idle" | "entry" | "walk" | "interpolate" | "returned"
    branchB,         \* the branch the last step of the walk took
    \* addPunctuation (Contract A)
    apiKey,          \* whether options.apiKey / OPENAI_API_KEY is set
    transcriptWords, \* transcript.words: <<[word, start, end]>>
    segments,        \* transcript.segments: <<[text, start, end]>>
    service,         \* which correction service answers: it names the set of its replies
    bi,              \* index i of the batch loop
    batchWords,      \* transcript.words.slice(i, i + BATCH_SIZE)
    punctuatedBatch, \* the service's text split on whitespace
    oiA,             \* original index (oi)
    piA,             \* punctuated index (pi)
    matched,         \* the matched counter of the batch
    punctuatedWords, \* the array being built
    punctuatedSegments, \* the rebuilt segments
    pcA,             \* "idle" | "entry" | "batch" | "walk" | "returned"
    branchA,         \* the branch the last step of the walk took
    outcomes,        \* what the service did for each batch so far: [thrown, reply]
    \* stripPunctuation, editDistance, isFuzzyMatch called on two strings
    strA,            \* argument a (and the argument of stripPunctuation)
    strB,            \* argument b
    distAB,          \* editDistance(a, b), -1 before the call
    distBA,          \* editDistance(b, a), -1 before the call
    fuzzyAB,         \* isFuzzyMatch(a, b)
    fuzzyBA,         \* isFuzzyMatch(b, a)
    stripped,        \* stripPunctuation(a)
    strippedTwice,   \* stripPunctuation(stripPunctuation(a))
    pcM,             \* "idle" | "ready" | "distance" | "fuzzy" | "done"
    \* createHeartbeat
    seconds,         \* let seconds
    stopped,         \* let stopped
    interval,        \* whether the interval timer is set (not cleared)
    builder,         \* what messageBuilder returns: "string" | "object" | "nothing"
    progressCalls,   \* how many times onProgress has been called
    stopCalls,       \* how many times stop() has been called
    ticksAfterStop,  \* how many intervals of time have passed since the first stop()
    pcH              \* "idle" | "running"

varsB == <<whisperWords, originalWords, result, wi, oi, ii, pcB, branchB>>

varsA == <<apiKey, transcriptWords, segments, service, bi, batchWords, punctuatedBatch,
           oiA, piA, matched, punctuatedWords, punctuatedSegments, pcA, branchA, outcomes>>

varsM == <<strA, strB, distAB, distBA, fuzzyAB, fuzzyBA, stripped, strippedTwice, pcM>>

varsH == <<seconds, stopped, interval, builder, progressCalls, stopCalls,
           ticksAfterStop, pcH>>

vars == <<varsB, varsA, varsM, varsH>>

\* The three string functions are not being called
IdleM ==
    /\ strA = <<>>
    /\ strB = <<>>
    /\ distAB = -1
    /\ distBA = -1
    /\ fuzzyAB = FALSE
    /\ fuzzyBA = FALSE
    /\ stripped = <<>>
    /\ strippedTwice = <<>>
    /\ pcM = "idle"

\* No heartbeat has been created
IdleH ==
    /\ seconds = 0
    /\ stopped = FALSE
    /\ interval = FALSE
    /\ builder = "nothing"
    /\ progressCalls = 0
    /\ stopCalls = 0
    /\ ticksAfterStop = 0
    /\ pcH = "idle"

(***************************************************************************)
(* Words of the model                                                      *)
(***************************************************************************)

w_privet    == <<"p", "r", "i", "v", "e", "t">>
w_Privet    == <<"P", "r", "i", "v", "e", "t">>
w_PrivetC   == <<"P", "r", "i", "v", "e", "t", ",">>
w_kak       == <<"k", "a", "k">>
w_kok       == <<"k", "o", "k">>
w_dela      == <<"d", "e", "l", "a">>
w_delaQ     == <<"d", "e", "l", "a", "?">>
w_mir       == <<"m", "i", "r">>
w_pogramma  == <<"p", "o", "g", "r", "a", "m", "m", "a">>
w_programma == <<"p", "r", "o", "g", "r", "a", "m", "m", "a">>
w_comma     == <<",">>
w_qmark     == <<"?">>
w_emdash    == <<"emdash">>
w_dots      == <<".", ".", ".">>

w_empty     == <<>>

\* Whisper's words carry a leading space
Spaced(w) == <<" ">> \o w

\* Every word the model's inputs are built from
PlainWords ==
    {w_privet, w_Privet, w_PrivetC, w_kak, w_kok, w_dela, w_delaQ, w_mir,
     w_pogramma, w_programma, w_comma, w_qmark, w_emdash, w_dots, w_empty}

AllWords == PlainWords \cup {Spaced(w) : w \in PlainWords}

\* stripPunctuation(w).toLowerCase() and the match test, evaluated once per
\* word and per pair of normalized words
BaseTable == [w \in AllWords |-> BaseOf(w)]
AllBases == {BaseTable[w] : w \in AllWords}
MatchTable == [x \in AllBases, y \in AllBases |-> IsMatch(x, y)]

Base(w) == BaseTable[w]
Matches(x, y) == MatchTable[x, y]

SeqsUpTo(S, n) == UNION {[1..k -> S] : k \in 0..n}

(***************************************************************************)
(* alignWhisperToOriginal: the walk                                        *)
(***************************************************************************)

LookaheadB == 3

\* -1, the value that marks a token for interpolation
Sentinel == R(0 - 1)

LeadingSpaceB(k) == IF k > 0 THEN <<" ">> ELSE <<>>

OrigBaseB == Base(originalWords[oi + 1])
WhisperBaseB == Base(whisperWords[wi + 1].word)

\* Mutant: the lookahead in the whisper words reaches 4 words ahead
WhisperLookaheadWide ==
    LET hits == {la \in 1..(LookaheadB + 1) :
                    /\ wi + la < Len(whisperWords)
                    /\ Matches(Base(whisperWords[wi + la + 1].word), OrigBaseB)}
    IN  IF hits = {} THEN 0 ELSE CHOOSE la \in hits : \A x \in hits : la <= x

\* The first la in 1..3 with wi + la < whisperWords.length whose word matches
\* origBase; 0 when the loop ends without one.
WhisperLookahead ==
    LET hits == {la \in 1..LookaheadB :
                    /\ wi + la < Len(whisperWords)
                    /\ Matches(Base(whisperWords[wi + la + 1].word), OrigBaseB)}
    IN  IF hits = {} THEN 0 ELSE CHOOSE la \in hits : \A x \in hits : la <= x

\* Mutant: the lookahead in the original words takes the last match in the
\* window instead of the first
OriginalLookaheadLast ==
    LET hits == {la \in 1..LookaheadB :
                    /\ oi + la < Len(originalWords)
                    /\ Matches(Base(originalWords[oi + la + 1]), WhisperBaseB)}
    IN  IF hits = {} THEN 0 ELSE CHOOSE la \in hits : \A x \in hits : x <= la

\* The first la in 1..3 with oi + la < originalWords.length whose word matches
\* whisperBase; 0 when the loop ends without one.
OriginalLookahead ==
    LET hits == {la \in 1..LookaheadB :
                    /\ oi + la < Len(originalWords)
                    /\ Matches(Base(originalWords[oi + la + 1]), WhisperBaseB)}
    IN  IF hits = {} THEN 0 ELSE CHOOSE la \in hits : \A x \in hits : la <= x

\* Mutant: a matched token takes Whisper's text instead of the original word
TimedTokenWhisperText(k, w) ==
    [word  |-> LeadingSpaceB(k) \o w.word,
     start |-> w.start,
     end   |-> w.end]

TimedToken(k, w) ==
    [word  |-> LeadingSpaceB(k) \o originalWords[k + 1],
     start |-> w.start,
     end   |-> w.end]

UntimedToken(k) ==
    [word  |-> LeadingSpaceB(k) \o originalWords[k + 1],
     start |-> Sentinel,
     end   |-> Sentinel]

\* Mutant: the fallback marks the words for interpolation instead of using 0
B_EmptyFallbackSentinel ==
    /\ pcB = "entry"
    /\ Len(whisperWords) = 0 \/ Len(originalWords) = 0
    /\ result' = [k \in 1..Len(originalWords) |->
                    [word  |-> LeadingSpaceB(k - 1) \o originalWords[k],
                     start |-> Sentinel,
                     end   |-> Sentinel]]
    /\ pcB' = "returned"
    /\ branchB' = "fallback"
    /\ UNCHANGED <<whisperWords, originalWords, wi, oi, ii>>
    /\ UNCHANGED <<varsA, varsM, varsH>>

\* if (!whisperWords.length || !originalWords.length) return originalWords.map(...)
B_EmptyFallback ==
    /\ pcB = "entry"
    /\ Len(whisperWords) = 0 \/ Len(originalWords) = 0
    /\ result' = [k \in 1..Len(originalWords) |->
                    [word  |-> LeadingSpaceB(k - 1) \o originalWords[k],
                     start |-> R(0),
                     end   |-> R(0)]]
    /\ pcB' = "returned"
    /\ branchB' = "fallback"
    /\ UNCHANGED <<whisperWords, originalWords, wi, oi, ii>>
    /\ UNCHANGED <<varsA, varsM, varsH>>

B_Enter ==
    /\ pcB = "entry"
    /\ Len(whisperWords) # 0 /\ Len(originalWords) # 0
    /\ result' = <<>>
    /\ wi' = 0
    /\ oi' = 0
    /\ pcB' = "walk"
    /\ UNCHANGED <<whisperWords, originalWords, ii, branchB>>
    /\ UNCHANGED <<varsA, varsM, varsH>>

InWalkB == pcB = "walk" /\ oi < Len(originalWords)

\* Mutant: a direct match does not consume the whisper word
B_DirectKeepWi ==
    /\ pcB = "walk" /\ oi < Len(originalWords)
    /\ wi < Len(whisperWords)
    /\ Matches(OrigBaseB, WhisperBaseB)
    /\ result' = Append(result, TimedToken(oi, whisperWords[wi + 1]))
    /\ oi' = oi + 1
    /\ branchB' = "direct"
    /\ UNCHANGED <<whisperWords, originalWords, wi, ii, pcB>>
    /\ UNCHANGED <<varsA, varsM, varsH>>

\* Direct match: the original word with Whisper's timing
B_Direct ==
    /\ InWalkB
    /\ wi < Len(whisperWords)
    /\ Matches(OrigBaseB, WhisperBaseB)
    /\ result' = Append(result, TimedToken(oi, whisperWords[wi + 1]))
    /\ wi' = wi + 1
    /\ oi' = oi + 1
    /\ branchB' = "direct"
    /\ UNCHANGED <<whisperWords, originalWords, ii, pcB>>
    /\ UNCHANGED <<varsA, varsM, varsH>>

\* Lookahead in the whisper words: la of them are skipped
B_WhisperLookahead ==
    /\ InWalkB
    /\ wi < Len(whisperWords)
    /\ ~Matches(OrigBaseB, WhisperBaseB)
    /\ WhisperLookahead # 0
    /\ result' = Append(result, TimedToken(oi, whisperWords[wi + WhisperLookahead + 1]))
    /\ wi' = wi + WhisperLookahead + 1
    /\ oi' = oi + 1
    /\ branchB' = "whisperLookahead"
    /\ UNCHANGED <<whisperWords, originalWords, ii, pcB>>
    /\ UNCHANGED <<varsA, varsM, varsH>>

\* Mutant: the words skipped by the lookahead in the original are not pushed
B_OriginalLookaheadDrop ==
    /\ pcB = "walk" /\ oi < Len(originalWords)
    /\ wi < Len(whisperWords)
    /\ ~Matches(OrigBaseB, WhisperBaseB)
    /\ WhisperLookahead = 0
    /\ OriginalLookahead # 0
    /\ oi' = oi + OriginalLookahead
    /\ branchB' = "originalLookahead"
    /\ UNCHANGED <<whisperWords, originalWords, result, wi, ii, pcB>>
    /\ UNCHANGED <<varsA, varsM, varsH>>

\* Lookahead in the original words: la of them are pushed for interpolation
B_OriginalLookahead ==
    /\ InWalkB
    /\ wi < Len(whisperWords)
    /\ ~Matches(OrigBaseB, WhisperBaseB)
    /\ WhisperLookahead = 0
    /\ OriginalLookahead # 0
    /\ result' = result \o [skip \in 1..OriginalLookahead |-> UntimedToken(oi + skip - 1)]
    /\ oi' = oi + OriginalLookahead
    /\ branchB' = "originalLookahead"
    /\ UNCHANGED <<whisperWords, originalWords, wi, ii, pcB>>
    /\ UNCHANGED <<varsA, varsM, varsH>>

\* Mutant: a word that matches nothing also consumes the whisper word
B_NoMatchAdvanceWi ==
    /\ pcB = "walk" /\ oi < Len(originalWords)
    /\ wi < Len(whisperWords)
    /\ ~Matches(OrigBaseB, WhisperBaseB)
    /\ WhisperLookahead = 0
    /\ OriginalLookahead = 0
    /\ result' = Append(result, UntimedToken(oi))
    /\ oi' = oi + 1
    /\ wi' = wi + 1
    /\ branchB' = "noMatch"
    /\ UNCHANGED <<whisperWords, originalWords, ii, pcB>>
    /\ UNCHANGED <<varsA, varsM, varsH>>

\* No match: the word is marked for interpolation
B_NoMatch ==
    /\ InWalkB
    /\ wi < Len(whisperWords)
    /\ ~Matches(OrigBaseB, WhisperBaseB)
    /\ WhisperLookahead = 0
    /\ OriginalLookahead = 0
    /\ result' = Append(result, UntimedToken(oi))
    /\ oi' = oi + 1
    /\ branchB' = "noMatch"
    /\ UNCHANGED <<whisperWords, originalWords, wi, ii, pcB>>
    /\ UNCHANGED <<varsA, varsM, varsH>>

\* No more whisper words: the remaining words are marked for interpolation
B_NoMoreWhisper ==
    /\ InWalkB
    /\ ~(wi < Len(whisperWords))
    /\ result' = Append(result, UntimedToken(oi))
    /\ oi' = oi + 1
    /\ branchB' = "noMoreWhisper"
    /\ UNCHANGED <<whisperWords, originalWords, wi, ii, pcB>>
    /\ UNCHANGED <<varsA, varsM, varsH>>

\* The while loop ends; the interpolation loop starts at i = 0
B_WalkDone ==
    /\ pcB = "walk"
    /\ ~(oi < Len(originalWords))
    /\ ii' = 0
    /\ pcB' = "interpolate"
    /\ UNCHANGED <<whisperWords, originalWords, result, wi, oi, branchB>>
    /\ UNCHANGED <<varsA, varsM, varsH>>

(***************************************************************************)
(* alignWhisperToOriginal: the interpolation                               *)
(***************************************************************************)

TotalDuration == whisperWords[Len(whisperWords)].end

\* The end of the nearest earlier token whose end is not -1, else 0
PrevEnd(res, i) ==
    LET known == {j \in 0..(i - 1) : res[j + 1].end # Sentinel}
    IN  IF known = {} THEN R(0)
        ELSE res[(CHOOSE j \in known : \A x \in known : x <= j) + 1].end

\* The index of the nearest later token whose start is not -1, else res.length
NextKnown(res, i) ==
    LET known == {j \in (i + 1)..(Len(res) - 1) : res[j + 1].start # Sentinel}
    IN  IF known = {} THEN Len(res)
        ELSE CHOOSE j \in known : \A x \in known : j <= x

NextStart(res, i) ==
    IF NextKnown(res, i) = Len(res) THEN TotalDuration
    ELSE res[NextKnown(res, i) + 1].start

\* The count of consecutive unmatched words from i on, this one included
GapCount(res, i) == NextKnown(res, i) - i

\* Mutant: the gap is divided by gapCount instead of gapCount + 1
StepOverGapCount(res, i) ==
    RDivInt(RSub(NextStart(res, i), PrevEnd(res, i)), GapCount(res, i))

\* (nextStart - prevEnd) / (gapCount + 1)
Step(res, i) == RDivInt(RSub(NextStart(res, i), PrevEnd(res, i)), GapCount(res, i) + 1)

\* prevEnd + step * pos
InterpStart(res, i, pos) == RAdd(PrevEnd(res, i), RMul(Step(res, i), R(pos)))

\* Mutant: the token lasts 1.2 steps instead of 0.8
InterpEndLong(res, i, pos) ==
    RAdd(PrevEnd(res, i), RMul(Step(res, i), RAdd(R(pos), <<6, 5>>)))

\* prevEnd + step * (pos + 0.8)
InterpEnd(res, i, pos) ==
    RAdd(PrevEnd(res, i), RMul(Step(res, i), RAdd(R(pos), <<4, 5>>)))

\* Mutant: only the start of each token of the run is assigned
FillRunStartOnly(res, i) ==
    [k \in 1..Len(res) |->
        IF i <= k - 1 /\ k - 1 < NextKnown(res, i)
        THEN [res[k] EXCEPT !.start = InterpStart(res, i, k - i)]
        ELSE res[k]]

\* The run that starts at i is filled: positions i .. i + gapCount - 1
FillRun(res, i) ==
    [k \in 1..Len(res) |->
        IF i <= k - 1 /\ k - 1 < NextKnown(res, i)
        THEN [res[k] EXCEPT !.start = InterpStart(res, i, k - i),
                            !.end   = InterpEnd(res, i, k - i)]
        ELSE res[k]]

\* One iteration of the for loop on a token that carries a timestamp
B_InterpKeep ==
    /\ pcB = "interpolate"
    /\ ii < Len(result)
    /\ result[ii + 1].start # Sentinel
    /\ ii' = ii + 1
    /\ UNCHANGED <<whisperWords, originalWords, result, wi, oi, pcB, branchB>>
    /\ UNCHANGED <<varsA, varsM, varsH>>

\* One iteration of the for loop on a token marked -1: its run is filled
B_InterpFill ==
    /\ pcB = "interpolate"
    /\ ii < Len(result)
    /\ result[ii + 1].start = Sentinel
    /\ result' = FillRun(result, ii)
    /\ ii' = ii + 1
    /\ UNCHANGED <<whisperWords, originalWords, wi, oi, pcB, branchB>>
    /\ UNCHANGED <<varsA, varsM, varsH>>

B_Return ==
    /\ pcB = "interpolate"
    /\ ~(ii < Len(result))
    /\ pcB' = "returned"
    /\ UNCHANGED <<whisperWords, originalWords, result, wi, oi, ii, branchB>>
    /\ UNCHANGED <<varsA, varsM, varsH>>

(***************************************************************************)
(* Inputs of alignWhisperToOriginal                                        *)
(***************************************************************************)

MaxWhisper == 3
MaxOriginal == 4

WhisperVocab == {w_privet, w_pogramma}
OriginalVocab == {w_PrivetC, w_programma, w_mir}

\* The timing of a whisper transcript: word k (from 0) is spoken
\*   "touching" : from k to k + 1, each word ending where the next starts
\*   "pauses"   : from 2k + 2 to 2k + 3, with silence before each word
\*   "reversed" : later words carry earlier times (not time-ordered)
\*   "gaps"     : from 4k + 9 to 4k + 10, so that a word ends at 10 and the
\*                next starts at 13
Timings == {"touching", "pauses", "reversed", "gaps"}

LatestStart == 20

StartOf(timing, k) ==
    IF timing = "touching" THEN k
    ELSE IF timing = "pauses" THEN 2 * k + 2
    ELSE IF timing = "gaps" THEN 4 * k + 9
    ELSE LatestStart - 2 * k

WithTiming(ws, timing) ==
    [k \in 1..Len(ws) |->
        [word  |-> ws[k],
         start |-> R(StartOf(timing, k - 1)),
         end   |-> R(StartOf(timing, k - 1) + 1)]]

WhisperInputs ==
    {WithTiming(ws, timing) : ws \in SeqsUpTo(WhisperVocab, MaxWhisper), timing \in Timings}

\* The total-miss example: no whisper word at all, the script privet mir
ExampleOriginal == <<w_privet, w_mir>>

\* Inputs that reach the edge of the lookahead windows, and inputs with words
\* made of punctuation only:
\*   the script word is spoken 3 and 4 whisper words ahead;
\*   the whisper word is written 4 script words ahead;
\*   a dash in the whisper words, dots in the script.
NamedInputsB ==
    {<<WithTiming(<<w_pogramma, w_pogramma, w_pogramma, w_privet>>, "pauses"),
       <<w_PrivetC, w_programma>>>>,
     <<WithTiming(<<w_pogramma, w_pogramma, w_pogramma, w_pogramma, w_privet>>, "pauses"),
       <<w_PrivetC, w_programma>>>>,
     <<WithTiming(<<w_pogramma>>, "pauses"),
       <<w_PrivetC, w_PrivetC, w_PrivetC, w_PrivetC, w_programma>>>>,
     <<WithTiming(<<w_emdash, w_privet>>, "pauses"), <<w_dots, w_PrivetC>>>>,
     <<WithTiming(<<w_emdash, w_privet>>, "pauses"), <<w_PrivetC, w_dots>>>>,
     <<WithTiming(<<w_privet, w_emdash>>, "pauses"), <<w_dots>>>>}

InputsB ==
    (WhisperInputs \X SeqsUpTo(OriginalVocab, MaxOriginal))
        \cup {<<<<>>, ExampleOriginal>>}
        \cup NamedInputsB

\* addPunctuation is not running
IdleA ==
    /\ apiKey = FALSE
    /\ transcriptWords = <<>>
    /\ segments = <<>>
    /\ service = "none"
    /\ bi = 0
    /\ batchWords = <<>>
    /\ punctuatedBatch = <<>>
    /\ oiA = 0
    /\ piA = 0
    /\ matched = 0
    /\ punctuatedWords = <<>>
    /\ punctuatedSegments = <<>>
    /\ pcA = "idle"
    /\ branchA = "none"
    /\ outcomes = <<>>

InitB ==
    /\ \E input \in InputsB :
          /\ whisperWords = input[1]
          /\ originalWords = input[2]
    /\ result = <<>>
    /\ wi = 0
    /\ oi = 0
    /\ ii = 0
    /\ pcB = "entry"
    /\ branchB = "none"
    /\ IdleA
    /\ IdleM
    /\ IdleH

NextB ==
    \/ B_EmptyFallback
    \/ B_Enter
    \/ B_Direct
    \/ B_WhisperLookahead
    \/ B_OriginalLookahead
    \/ B_NoMatch
    \/ B_NoMoreWhisper
    \/ B_WalkDone
    \/ B_InterpKeep
    \/ B_InterpFill
    \/ B_Return

SpecB == InitB /\ [][NextB]_vars

(***************************************************************************)
(* addPunctuation: one iteration of the two-pointer walk, as a function of *)
(* the batch (bw), the service's words (pb) and the two indices (o, p)     *)
(***************************************************************************)

LookaheadA == 3

\* The batch size, 500 in the code, scaled down
BATCH_SIZE == 5

WhitespaceChars == {" ", "\t", "\n"}

\* original.word.match(/^\s*/)[0]
RECURSIVE LeadingWhitespace(_)
LeadingWhitespace(w) ==
    IF Len(w) > 0 /\ Head(w) \in WhitespaceChars
    THEN <<Head(w)>> \o LeadingWhitespace(Tail(w))
    ELSE <<>>

\* Mutant: the leading whitespace of the original word is lost
PunctuatedNoSpace(original, text) == [original EXCEPT !.word = text]

\* { ...original, word: leadingSpace + punctuatedBatch[pi] }
Punctuated(original, text) ==
    [original EXCEPT !.word = LeadingWhitespace(original.word) \o text]

DirectMatchA(bw, pb, o, p) == Matches(Base(bw[o + 1].word), Base(pb[p + 1]))

\* Mutant: the forward lookahead starts two words ahead
ForwardLookaheadFromTwo(bw, pb, o, p) ==
    LET hits == {la \in 2..LookaheadA :
                    /\ p + la < Len(pb)
                    /\ Matches(Base(pb[p + la + 1]), Base(bw[o + 1].word))}
    IN  IF hits = {} THEN 0 ELSE CHOOSE la \in hits : \A x \in hits : la <= x

\* Mutant: the last matching lookahead of the window is taken, not the first
ForwardLookaheadLast(bw, pb, o, p) ==
    LET hits == {la \in 1..LookaheadA :
                    /\ p + la < Len(pb)
                    /\ Matches(Base(pb[p + la + 1]), Base(bw[o + 1].word))}
    IN  IF hits = {} THEN 0 ELSE CHOOSE la \in hits : \A x \in hits : la >= x

\* The first lookahead in 1..3 with pi + lookahead < punctuatedBatch.length
\* whose word matches origBase; 0 when the loop ends without one.
ForwardLookahead(bw, pb, o, p) ==
    LET hits == {la \in 1..LookaheadA :
                    /\ p + la < Len(pb)
                    /\ Matches(Base(pb[p + la + 1]), Base(bw[o + 1].word))}
    IN  IF hits = {} THEN 0 ELSE CHOOSE la \in hits : \A x \in hits : la <= x

\* The first lookahead in 1..3 with oi + lookahead < batchWords.length whose
\* word matches punctBase; 0 when the loop ends without one.
ReverseLookahead(bw, pb, o, p) ==
    LET hits == {la \in 1..LookaheadA :
                    /\ o + la < Len(bw)
                    /\ Matches(Base(bw[o + la + 1].word), Base(pb[p + 1]))}
    IN  IF hits = {} THEN 0 ELSE CHOOSE la \in hits : \A x \in hits : la <= x

\* The branch the iteration takes (oi < batchWords.length)
BranchOf(bw, pb, o, p) ==
    IF p < Len(pb)
    THEN IF DirectMatchA(bw, pb, o, p) THEN "direct"
         ELSE IF ForwardLookahead(bw, pb, o, p) # 0 THEN "forward"
         ELSE IF ReverseLookahead(bw, pb, o, p) # 0 THEN "reverse"
         ELSE "noMatch"
    ELSE "outOfPunctuated"

\* Mutant: nothing is pushed once the punctuated words have run out
PushedByDropTail(bw, pb, o, p) ==
    LET br == BranchOf(bw, pb, o, p)
    IN  IF br = "direct" THEN <<Punctuated(bw[o + 1], pb[p + 1])>>
        ELSE IF br = "forward"
             THEN <<Punctuated(bw[o + 1], pb[p + ForwardLookahead(bw, pb, o, p) + 1])>>
        ELSE IF br = "reverse"
             THEN [skip \in 1..ReverseLookahead(bw, pb, o, p) |-> bw[o + skip]]
        ELSE IF br = "noMatch" THEN <<bw[o + 1]>>
        ELSE <<>>

\* Mutant: the reverse lookahead pushes the word it found, once per skipped word
PushedByReverseFound(bw, pb, o, p) ==
    LET br == BranchOf(bw, pb, o, p)
    IN  IF br = "direct" THEN <<Punctuated(bw[o + 1], pb[p + 1])>>
        ELSE IF br = "forward"
             THEN <<Punctuated(bw[o + 1], pb[p + ForwardLookahead(bw, pb, o, p) + 1])>>
        ELSE IF br = "reverse"
             THEN [skip \in 1..ReverseLookahead(bw, pb, o, p) |->
                      bw[o + ReverseLookahead(bw, pb, o, p) + 1]]
        ELSE <<bw[o + 1]>>

\* What the iteration pushes onto punctuatedWords
PushedBy(bw, pb, o, p) ==
    LET br == BranchOf(bw, pb, o, p)
    IN  IF br = "direct" THEN <<Punctuated(bw[o + 1], pb[p + 1])>>
        ELSE IF br = "forward"
             THEN <<Punctuated(bw[o + 1], pb[p + ForwardLookahead(bw, pb, o, p) + 1])>>
        ELSE IF br = "reverse"
             THEN [skip \in 1..ReverseLookahead(bw, pb, o, p) |-> bw[o + skip]]
        ELSE <<bw[o + 1]>>

\* Mutant: oi is not advanced when nothing matches
NextOiStayOnMiss(bw, pb, o, p) ==
    IF BranchOf(bw, pb, o, p) = "reverse" THEN o + ReverseLookahead(bw, pb, o, p)
    ELSE IF BranchOf(bw, pb, o, p) = "noMatch" THEN o
    ELSE o + 1

\* oi after the iteration
NextOi(bw, pb, o, p) ==
    IF BranchOf(bw, pb, o, p) = "reverse" THEN o + ReverseLookahead(bw, pb, o, p)
    ELSE o + 1

\* Mutant: pi is advanced after a reverse lookahead too
NextPiAdvanceOnReverse(bw, pb, o, p) ==
    LET br == BranchOf(bw, pb, o, p)
    IN  IF br = "direct" THEN p + 1
        ELSE IF br = "forward" THEN p + ForwardLookahead(bw, pb, o, p) + 1
        ELSE IF br = "reverse" THEN p + 1
        ELSE p

\* Mutant: pi is not advanced after a direct match
NextPiStayOnDirect(bw, pb, o, p) ==
    LET br == BranchOf(bw, pb, o, p)
    IN  IF br = "forward" THEN p + ForwardLookahead(bw, pb, o, p) + 1
        ELSE p

\* pi after the iteration
NextPi(bw, pb, o, p) ==
    LET br == BranchOf(bw, pb, o, p)
    IN  IF br = "direct" THEN p + 1
        ELSE IF br = "forward" THEN p + ForwardLookahead(bw, pb, o, p) + 1
        ELSE p

\* Mutant: matched++ on every branch
MatchedByEveryBranch(bw, pb, o, p) == 1

\* matched++ on the two branches that use a punctuated word
MatchedBy(bw, pb, o, p) ==
    IF BranchOf(bw, pb, o, p) \in {"direct", "forward"} THEN 1 ELSE 0

\* The words the whole while loop pushes for one batch, from oi = o, pi = p on
RECURSIVE WalkFrom(_, _, _, _)
WalkFrom(bw, pb, o, p) ==
    IF o < Len(bw)
    THEN PushedBy(bw, pb, o, p)
            \o WalkFrom(bw, pb, NextOi(bw, pb, o, p), NextPi(bw, pb, o, p))
    ELSE <<>>

(***************************************************************************)
(* addPunctuation: the segments                                            *)
(***************************************************************************)

RECURSIVE JoinWords(_)
JoinWords(ws) == IF ws = <<>> THEN <<>> ELSE Head(ws).word \o JoinWords(Tail(ws))

RECURSIVE TrimStart(_)
TrimStart(t) ==
    IF Len(t) > 0 /\ Head(t) \in WhitespaceChars THEN TrimStart(Tail(t)) ELSE t

RECURSIVE TrimEnd(_)
TrimEnd(t) ==
    IF Len(t) > 0 /\ t[Len(t)] \in WhitespaceChars
    THEN TrimEnd(SubSeq(t, 1, Len(t) - 1))
    ELSE t

\* String.prototype.trim
Trim(t) == TrimEnd(TrimStart(t))

InSegment(segment, w) == RLe(segment.start, w.start) /\ RLe(w.end, segment.end)

\* Mutant: the joined text is not trimmed
RebuildSegmentNoTrim(segment, words) ==
    LET segmentWords == SelectSeq(words, LAMBDA w : InSegment(segment, w))
        text == JoinWords(segmentWords)
    IN  [segment EXCEPT !.text = IF text # <<>> THEN text ELSE segment.text]

\* { ...segment, text: segmentWords.map(w => w.word).join('').trim() || segment.text }
RebuildSegment(segment, words) ==
    LET segmentWords == SelectSeq(words, LAMBDA w : InSegment(segment, w))
        text == Trim(JoinWords(segmentWords))
    IN  [segment EXCEPT !.text = IF text # <<>> THEN text ELSE segment.text]

(***************************************************************************)
(* Inputs of addPunctuation                                                *)
(***************************************************************************)

MaxWordsA == 4
MaxReplyA == 4

SourceVocabA == {Spaced(w_privet), Spaced(w_pogramma)}
ReplyVocabA == {w_PrivetC, w_programma, w_emdash}

\* Word k (from 0) of a transcript is spoken from second k to second k + 1
Timed(ws) == [k \in 1..Len(ws) |-> [word |-> ws[k], start |-> R(k - 1), end |-> R(k)]]

\* The lookahead example: privet kak dela, answered by Privet , kak dela ?
ExampleWords == <<w_privet, w_kak, w_dela>>
ExampleReply == <<w_Privet, w_comma, w_kak, w_dela, w_qmark>>

\* A transcript whose only word is a dash: Whisper's word has no letters
DashWords == <<Spaced(w_emdash)>>

TranscriptsA ==
    {Timed(ws) : ws \in SeqsUpTo(SourceVocabA, MaxWordsA)}
        \cup {Timed(ExampleWords), Timed(DashWords)}

\* "".split(/\s+/) is [""]: the service's words are never an empty list
\* A reply whose only matching word lies four words ahead
FarReply == <<w_emdash, w_emdash, w_emdash, w_emdash, w_PrivetC>>

RepliesA ==
    (SeqsUpTo(ReplyVocabA, MaxReplyA) \ {<<>>})
        \cup {<<w_empty>>, <<w_dots>>, ExampleReply, FarReply}

Segment(text, from, to) == [text |-> text, start |-> R(from), end |-> R(to)]

SegmentationsA ==
    {<<>>, <<Segment(w_mir, 0, 2), Segment(w_dots, 2, 3)>>}

\* A transcript of three batches: 2 * BATCH_SIZE + 1 words, privet and
\* pogramma in turn
LongWords ==
    [k \in 1..(2 * BATCH_SIZE + 1) |->
        IF k % 2 = 1 THEN Spaced(w_privet) ELSE Spaced(w_pogramma)]

\* The correction of a batch of LongWords that starts with privet, a reply
\* with one word too many, and a reply that matches nothing
GoodReply ==
    [k \in 1..BATCH_SIZE |-> IF k % 2 = 1 THEN w_PrivetC ELSE w_programma]

FewReplies == {GoodReply, <<w_emdash>> \o GoodReply, <<w_mir>>}

\* The replies of the service named sv
RepliesOf(sv) == IF sv = "any" THEN RepliesA ELSE IF sv = "few" THEN FewReplies ELSE {}

(***************************************************************************)
(* addPunctuation: the steps                                               *)
(***************************************************************************)

\* if (!apiKey || !transcript.words || transcript.words.length === 0) return transcript
A_EarlyReturn ==
    /\ pcA = "entry"
    /\ ~apiKey \/ Len(transcriptWords) = 0
    /\ punctuatedWords' = transcriptWords
    /\ punctuatedSegments' = segments
    /\ pcA' = "returned"
    /\ UNCHANGED <<apiKey, transcriptWords, segments, service, bi, batchWords,
                   punctuatedBatch, oiA, piA, matched, branchA, outcomes>>
    /\ UNCHANGED <<varsB, varsM, varsH>>

A_Enter ==
    /\ pcA = "entry"
    /\ apiKey /\ Len(transcriptWords) # 0
    /\ punctuatedWords' = <<>>
    /\ bi' = 0
    /\ pcA' = "batch"
    /\ UNCHANGED <<apiKey, transcriptWords, segments, service, batchWords,
                   punctuatedBatch, oiA, piA, matched, punctuatedSegments, branchA,
                   outcomes>>
    /\ UNCHANGED <<varsB, varsM, varsH>>

\* transcript.words.slice(i, i + BATCH_SIZE)
BatchAt(words, i) == SubSeq(words, i + 1, Min2(i + BATCH_SIZE, Len(words)))

\* Mutant: matched is not reset when a batch starts
A_BatchReplyKeepMatched ==
    /\ pcA = "batch"
    /\ bi < Len(transcriptWords)
    /\ \E reply \in RepliesOf(service) :
          /\ punctuatedBatch' = reply
          /\ outcomes' = Append(outcomes, [thrown |-> FALSE, reply |-> reply])
    /\ batchWords' = BatchAt(transcriptWords, bi)
    /\ oiA' = 0
    /\ piA' = 0
    /\ pcA' = "walk"
    /\ branchA' = "none"
    /\ UNCHANGED <<apiKey, transcriptWords, segments, service, bi, matched, punctuatedWords,
                   punctuatedSegments>>
    /\ UNCHANGED <<varsB, varsM, varsH>>

\* Mutant: pi is not reset when a batch starts
A_BatchReplyKeepPi ==
    /\ pcA = "batch"
    /\ bi < Len(transcriptWords)
    /\ \E reply \in RepliesOf(service) :
          /\ punctuatedBatch' = reply
          /\ outcomes' = Append(outcomes, [thrown |-> FALSE, reply |-> reply])
    /\ batchWords' = BatchAt(transcriptWords, bi)
    /\ oiA' = 0
    /\ matched' = 0
    /\ pcA' = "walk"
    /\ branchA' = "none"
    /\ UNCHANGED <<apiKey, transcriptWords, segments, service, bi, piA, punctuatedWords,
                   punctuatedSegments>>
    /\ UNCHANGED <<varsB, varsM, varsH>>

\* The service answers: its text, trimmed and split on whitespace, is one of
\* the replies; the walk starts with oi = pi = matched = 0.
A_BatchReply ==
    /\ pcA = "batch"
    /\ bi < Len(transcriptWords)
    /\ \E reply \in RepliesOf(service) :
          /\ punctuatedBatch' = reply
          /\ outcomes' = Append(outcomes, [thrown |-> FALSE, reply |-> reply])
    /\ batchWords' = BatchAt(transcriptWords, bi)
    /\ oiA' = 0
    /\ piA' = 0
    /\ matched' = 0
    /\ pcA' = "walk"
    /\ branchA' = "none"
    /\ UNCHANGED <<apiKey, transcriptWords, segments, service, bi, punctuatedWords,
                   punctuatedSegments>>
    /\ UNCHANGED <<varsB, varsM, varsH>>

\* The request (or the reading of its response) throws: the catch block
\* pushes the batch's own words, and the for loop goes on with i += BATCH_SIZE.
A_BatchThrow ==
    /\ pcA = "batch"
    /\ bi < Len(transcriptWords)
    /\ batchWords' = BatchAt(transcriptWords, bi)
    /\ punctuatedWords' = punctuatedWords \o batchWords'
    /\ outcomes' = Append(outcomes, [thrown |-> TRUE, reply |-> <<>>])
    /\ bi' = bi + BATCH_SIZE
    /\ UNCHANGED <<apiKey, transcriptWords, segments, service, punctuatedBatch, oiA, piA,
                   matched, punctuatedSegments, pcA, branchA>>
    /\ UNCHANGED <<varsB, varsM, varsH>>

InWalkA == pcA = "walk" /\ oiA < Len(batchWords)

\* One iteration of the while loop: what it pushes and how the indices move
WalkStepA ==
    /\ punctuatedWords' =
          punctuatedWords \o PushedBy(batchWords, punctuatedBatch, oiA, piA)
    /\ matched' = matched + MatchedBy(batchWords, punctuatedBatch, oiA, piA)
    /\ oiA' = NextOi(batchWords, punctuatedBatch, oiA, piA)
    /\ piA' = NextPi(batchWords, punctuatedBatch, oiA, piA)
    /\ branchA' = BranchOf(batchWords, punctuatedBatch, oiA, piA)
    /\ UNCHANGED <<apiKey, transcriptWords, segments, service, bi, batchWords,
                   punctuatedBatch, punctuatedSegments, pcA, outcomes>>
    /\ UNCHANGED <<varsB, varsM, varsH>>

\* Direct or fuzzy match: the punctuated version is used
A_Direct ==
    /\ InWalkA
    /\ BranchOf(batchWords, punctuatedBatch, oiA, piA) = "direct"
    /\ WalkStepA

\* The service added extra token(s): they are skipped
A_ForwardLookahead ==
    /\ InWalkA
    /\ BranchOf(batchWords, punctuatedBatch, oiA, piA) = "forward"
    /\ WalkStepA

\* The service merged word(s): the skipped originals are kept as they are
A_ReverseLookahead ==
    /\ InWalkA
    /\ BranchOf(batchWords, punctuatedBatch, oiA, piA) = "reverse"
    /\ WalkStepA

\* Cannot align: the original word is kept, only oi advances
A_NoMatch ==
    /\ InWalkA
    /\ BranchOf(batchWords, punctuatedBatch, oiA, piA) = "noMatch"
    /\ WalkStepA

\* Ran out of punctuated words: the remaining originals are kept
A_OutOfPunctuated ==
    /\ InWalkA
    /\ BranchOf(batchWords, punctuatedBatch, oiA, piA) = "outOfPunctuated"
    /\ WalkStepA

\* The while loop ends; the for loop goes on with i += BATCH_SIZE
A_BatchDone ==
    /\ pcA = "walk"
    /\ ~(oiA < Len(batchWords))
    /\ bi' = bi + BATCH_SIZE
    /\ pcA' = "batch"
    /\ UNCHANGED <<apiKey, transcriptWords, segments, service, batchWords, punctuatedBatch,
                   oiA, piA, matched, punctuatedWords, punctuatedSegments, branchA,
                   outcomes>>
    /\ UNCHANGED <<varsB, varsM, varsH>>

\* The for loop ends: the segments are rebuilt and the transcript returned
A_Return ==
    /\ pcA = "batch"
    /\ ~(bi < Len(transcriptWords))
    /\ punctuatedSegments' =
          [k \in 1..Len(segments) |-> RebuildSegment(segments[k], punctuatedWords)]
    /\ pcA' = "returned"
    /\ UNCHANGED <<apiKey, transcriptWords, segments, service, bi, batchWords,
                   punctuatedBatch, oiA, piA, matched, punctuatedWords, branchA, outcomes>>
    /\ UNCHANGED <<varsB, varsM, varsH>>

\* alignWhisperToOriginal is not running
IdleB ==
    /\ whisperWords = <<>>
    /\ originalWords = <<>>
    /\ result = <<>>
    /\ wi = 0
    /\ oi = 0
    /\ ii = 0
    /\ pcB = "idle"
    /\ branchB = "none"

StartA ==
    /\ bi = 0
    /\ batchWords = <<>>
    /\ punctuatedBatch = <<>>
    /\ oiA = 0
    /\ piA = 0
    /\ matched = 0
    /\ punctuatedWords = <<>>
    /\ punctuatedSegments = <<>>
    /\ pcA = "entry"
    /\ branchA = "none"
    /\ outcomes = <<>>

\* Short transcripts with every reply, and a transcript of three batches
\* with a few replies
InitA ==
    /\ apiKey \in BOOLEAN
    /\ \/ transcriptWords \in TranscriptsA /\ service = "any"
       \/ transcriptWords = Timed(LongWords) /\ service = "few"
    /\ segments \in SegmentationsA
    /\ StartA
    /\ IdleB
    /\ IdleM
    /\ IdleH

NextA ==
    \/ A_EarlyReturn
    \/ A_Enter
    \/ A_BatchReply
    \/ A_BatchThrow
    \/ A_Direct
    \/ A_ForwardLookahead
    \/ A_ReverseLookahead
    \/ A_NoMatch
    \/ A_OutOfPunctuated
    \/ A_BatchDone
    \/ A_Return

SpecA == InitA /\ [][NextA]_vars

(***************************************************************************)
(* Properties of alignWhisperToOriginal (Contract B), under SpecB          *)
(***************************************************************************)

ReturnedB == pcB = "returned"

\* Token k of the result was given its timestamps by the interpolation
\* (the timestamps of the whisper words are whole seconds)
Fractional(k) == result[k].start[2] # 1 \/ result[k].end[2] # 1

\* C1: the returned sequence has exactly one token per original word,
\* whatever the number of whisper words; while the walk runs it has one
\* token per original word passed.
C1_LengthIsTargetLength ==
    /\ pcB = "walk" => Len(result) = oi /\ oi <= Len(originalWords)
    /\ pcB \in {"interpolate", "returned"} => Len(result) = Len(originalWords)

C1_Witness ==
    /\ ReturnedB
    /\ Len(whisperWords) > 0
    /\ Len(originalWords) > Len(whisperWords) + 1
    /\ \E k \in 1..Len(result) : Fractional(k)

\* C4: the text of token k (from 0) is original word k, after a single space
\* exactly when k > 0: the result keeps the order and the text of the
\* original words on every branch.
C4_TextIsTargetWord ==
    \A k \in 1..Len(result) :
        result[k].word = (IF k > 1 THEN <<" ">> ELSE <<>>) \o originalWords[k]

C4_Witness ==
    /\ ReturnedB
    /\ branchB = "whisperLookahead"
    /\ Len(result) > 2
    /\ \E k \in 1..Len(result) : Fractional(k)
    /\ \E k \in 1..Len(result) : Base(originalWords[k]) # Base(whisperWords[1].word)

\* C5: when there is a whisper word (all timestamps being >= 0), no token of
\* the returned sequence has start or end -1.
C5_NoSentinelReturned ==
    (ReturnedB /\ Len(whisperWords) > 0) =>
        \A k \in 1..Len(result) :
            result[k].start # Sentinel /\ result[k].end # Sentinel

C5_Witness ==
    /\ ReturnedB
    /\ Len(whisperWords) > 0
    /\ branchB = "noMoreWhisper"
    /\ \E k \in 1..Len(result) : Fractional(k)

\* Every token of the result starts no later than it ends
StartLeEnd == \A k \in 1..Len(result) : RLe(result[k].start, result[k].end)

\* C6: every returned token has start <= end whenever each whisper
\* word has start <= end, whatever the order of the whisper timestamps.
C6_StartLeEndAnyOrder ==
    (ReturnedB /\ \A k \in 1..Len(whisperWords) :
                     RLe(whisperWords[k].start, whisperWords[k].end))
        => StartLeEnd

EmptyInputB == Len(whisperWords) = 0 \/ Len(originalWords) = 0

\* C7: with no whisper word or no original word the function returns one
\* token per original word with start 0 and end 0, straight from the entry:
\* neither the walk nor the interpolation runs.
C7_EmptyFallback ==
    (EmptyInputB /\ pcB # "idle") =>
        /\ pcB \in {"entry", "returned"}
        /\ ReturnedB =>
              /\ Len(result) = Len(originalWords)
              /\ \A k \in 1..Len(result) :
                    /\ result[k].start = R(0)
                    /\ result[k].end = R(0)
                    /\ result[k].word =
                          (IF k > 1 THEN <<" ">> ELSE <<>>) \o originalWords[k]

C7_Witness ==
    /\ ReturnedB
    /\ whisperWords = <<>>
    /\ originalWords = ExampleOriginal
    /\ result = <<[word |-> w_privet, start |-> R(0), end |-> R(0)],
                  [word |-> Spaced(w_mir), start |-> R(0), end |-> R(0)]>>

(***************************************************************************)
(* Properties of addPunctuation (Contract A), under SpecA                  *)
(***************************************************************************)

ReturnedA == pcA = "returned"

\* The walk of the current batch has passed all its words
WalkEndedA == pcA = "walk" /\ oiA = Len(batchWords)

\* The number of batches of a transcript of n words
BatchCount(n) == (n + BATCH_SIZE - 1) \div BATCH_SIZE

\* C2: the walk pushes exactly one word per source word of the batch, for
\* every reply of the service, so the returned words are as many as
\* transcript.words.
C2_LengthIsSourceLength ==
    /\ pcA = "walk" => Len(punctuatedWords) = bi + oiA /\ oiA <= Len(batchWords)
    /\ pcA = "batch" => Len(punctuatedWords) = Min2(bi, Len(transcriptWords))
    /\ ReturnedA => Len(punctuatedWords) = Len(transcriptWords)

C2_Witness ==
    /\ ReturnedA
    /\ Len(outcomes) = 1
    /\ ~outcomes[1].thrown
    /\ Len(outcomes[1].reply) < Len(transcriptWords)
    /\ branchA = "outOfPunctuated"
    /\ matched > 0

\* C3: output word k carries the start and the end of source word k, and its
\* text is source word k itself or the leading whitespace of source word k
\* followed by one word of the service's reply for its batch.
C3_EachSourceWordOnce ==
    \A k \in 1..Len(punctuatedWords) :
        LET src == transcriptWords[k]
            out == punctuatedWords[k]
            b   == ((k - 1) \div BATCH_SIZE) + 1
        IN  /\ out.start = src.start
            /\ out.end = src.end
            /\ \/ out.word = src.word
               \/ /\ ~outcomes[b].thrown
                  /\ \E j \in 1..Len(outcomes[b].reply) :
                        out.word = LeadingWhitespace(src.word) \o outcomes[b].reply[j]

C3_Witness ==
    /\ ReturnedA
    /\ Len(outcomes) = 1
    /\ branchA = "direct"
    /\ Len(punctuatedWords) > 2
    /\ punctuatedWords[1] = transcriptWords[1]
    /\ punctuatedWords[2] = transcriptWords[2]
    /\ punctuatedWords[3].word # transcriptWords[3].word

\* The reply has the words of the batch, one for one, up to normalization
NormEqual(bw, pb) ==
    /\ Len(pb) = Len(bw)
    /\ \A k \in 1..Len(bw) : Base(pb[k]) = Base(bw[k].word)

\* The words pushed so far for the current batch
PushedForBatch == SubSeq(punctuatedWords, bi + 1, Len(punctuatedWords))

\* C8 as stated: when the reply equals the batch up to normalization, every
\* source word is matched with its own timing and the output text is the
\* source text.
C8_IdempotentSourceText ==
    (WalkEndedA /\ NormEqual(batchWords, punctuatedBatch)) =>
        /\ matched = Len(batchWords)
        /\ PushedForBatch = batchWords

\* C8 amended: when the reply equals the batch up to normalization, every
\* step is a direct match, every source word is matched and keeps its timing,
\* and the output text is the reply's word after the source word's leading
\* whitespace (the source text up to normalization).
C8_IdempotentUpToNormalization ==
    (pcA = "walk" /\ NormEqual(batchWords, punctuatedBatch)) =>
        /\ branchA \in {"none", "direct"}
        /\ piA = oiA
        /\ matched = oiA
        /\ Len(PushedForBatch) = oiA
        /\ \A k \in 1..oiA :
              /\ PushedForBatch[k].start = batchWords[k].start
              /\ PushedForBatch[k].end = batchWords[k].end
              /\ PushedForBatch[k].word =
                    LeadingWhitespace(batchWords[k].word) \o punctuatedBatch[k]
              /\ Base(PushedForBatch[k].word) = Base(batchWords[k].word)

C8_Witness ==
    /\ WalkEndedA
    /\ NormEqual(batchWords, punctuatedBatch)
    /\ Len(batchWords) > 2
    /\ matched = Len(batchWords)
    /\ PushedForBatch # batchWords

\* The run of the lookahead example
ExampleRunA ==
    /\ transcriptWords = Timed(ExampleWords)
    /\ Len(outcomes) = 1
    /\ ~outcomes[1].thrown
    /\ outcomes[1].reply = ExampleReply

\* The reply is the batch up to normalization, with 1 to 3 extra words that
\* match no word of the batch inserted before one of its words
InsertedBefore(bw, pb) ==
    \E q \in 1..Len(bw), n \in 1..LookaheadA :
        /\ Len(pb) = Len(bw) + n
        /\ \A k \in 1..(q - 1) : Base(pb[k]) = Base(bw[k].word)
        /\ \A k \in q..Len(bw) : Base(pb[k + n]) = Base(bw[k].word)
        /\ \A e \in q..(q + n - 1) :
              \A k \in 1..Len(bw) : ~Matches(Base(pb[e]), Base(bw[k].word))

\* The character c occurs in the text of some output word
OccursInOutput(c) ==
    \E k \in 1..Len(punctuatedWords) :
        \E x \in 1..Len(punctuatedWords[k].word) : punctuatedWords[k].word[x] = c

\* C9: in the example the three output words carry the original timestamps,
\* all three are matched, none is a separate "," or "?", and the reply's
\* punctuation (its comma and its question mark) is attached to output words;
\* in general a reply that is the batch with 1 to 3 extra words inserted
\* before a word leaves every word of the batch matched.
C9_LookaheadRecovery ==
    /\ (ReturnedA /\ ExampleRunA) =>
          /\ Len(punctuatedWords) = 3
          /\ \A k \in 1..3 :
                /\ punctuatedWords[k].start = R(k - 1)
                /\ punctuatedWords[k].end = R(k)
                /\ Base(punctuatedWords[k].word) = Base(ExampleWords[k])
          /\ punctuatedWords[1].word[1] = "P"
          /\ matched = 3
          /\ OccursInOutput(",")
          /\ OccursInOutput("?")
    /\ (WalkEndedA /\ InsertedBefore(batchWords, punctuatedBatch)) =>
          matched = Len(batchWords)

\* Batch b (from 1) of the transcript
BatchNo(b) == BatchAt(transcriptWords, (b - 1) * BATCH_SIZE)

\* What batch b contributes when it is the only thing looked at: its own
\* words if the service threw, else the walk over its words and its reply
AloneOutput(b) ==
    IF outcomes[b].thrown THEN BatchNo(b)
    ELSE WalkFrom(BatchNo(b), outcomes[b].reply, 0, 0)

RECURSIVE ConcatAlone(_)
ConcatAlone(b) == IF b = 0 THEN <<>> ELSE ConcatAlone(b - 1) \o AloneOutput(b)

\* C10: the returned words are the concatenation, in batch order, of what
\* each batch gives alone: the batch's own words where the service threw,
\* and elsewhere the same words whatever happened to the other batches.
C10_BatchesIndependent ==
    (ReturnedA /\ apiKey /\ Len(transcriptWords) > 0) =>
        /\ Len(outcomes) = BatchCount(Len(transcriptWords))
        /\ punctuatedWords = ConcatAlone(Len(outcomes))

C10_Witness ==
    /\ ReturnedA
    /\ Len(outcomes) = 3
    /\ ~outcomes[1].thrown
    /\ outcomes[2].thrown
    /\ ~outcomes[3].thrown
    /\ AloneOutput(1) # BatchNo(1)
    /\ AloneOutput(3) # BatchNo(3)
    /\ SubSeq(punctuatedWords, BATCH_SIZE + 1, 2 * BATCH_SIZE) = BatchNo(2)

\* The segments have been rebuilt: the function did not return early
RebuiltA == ReturnedA /\ apiKey /\ Len(transcriptWords) > 0

\* The returned words that lie inside the time range of segment s
WordsInside(s) ==
    SelectSeq(punctuatedWords,
              LAMBDA w : RLe(segments[s].start, w.start) /\ RLe(w.end, segments[s].end))

\* The texts of the words ws, one after the other
RECURSIVE Concat(_)
Concat(ws) == IF Len(ws) = 0 THEN <<>> ELSE Concat(SubSeq(ws, 1, Len(ws) - 1)) \o ws[Len(ws)].word

\* t without the white space at its two ends
Trimmed(t) ==
    LET inner == {k \in 1..Len(t) : t[k] \notin WhitespaceChars}
    IN  IF inner = {} THEN <<>>
        ELSE SubSeq(t, CHOOSE k \in inner : \A x \in inner : k <= x,
                       CHOOSE k \in inner : \A x \in inner : k >= x)

\* The returned segments are the input's, one for one, with the same times
SameSegmentTimes ==
    /\ Len(punctuatedSegments) = Len(segments)
    /\ \A s \in 1..Len(segments) :
          /\ punctuatedSegments[s].start = segments[s].start
          /\ punctuatedSegments[s].end = segments[s].end

\* C11 as stated: after the rebuild the segments keep their number and times,
\* a segment with output words inside its range has their trimmed
\* concatenation as text, and a segment with none keeps its original text.
C11_SegmentTextIsConcatenation ==
    RebuiltA =>
        /\ SameSegmentTimes
        /\ \A s \in 1..Len(segments) :
              punctuatedSegments[s].text =
                 IF Len(WordsInside(s)) = 0 THEN segments[s].text
                 ELSE Trimmed(Concat(WordsInside(s)))

\* C11 amended: the segments keep their number and times; after the rebuild a
\* segment's text is the trimmed concatenation of the output words inside its
\* range when that is not empty, and the segment's original text otherwise
\* (no word inside, or only words that trim to nothing); on the early return
\* the segments are the input's unchanged.
C11_SegmentTextOrOriginal ==
    ReturnedA =>
        /\ SameSegmentTimes
        /\ RebuiltA =>
              \A s \in 1..Len(segments) :
                 punctuatedSegments[s].text =
                    IF Trimmed(Concat(WordsInside(s))) = <<>> THEN segments[s].text
                    ELSE Trimmed(Concat(WordsInside(s)))
        /\ ~RebuiltA => punctuatedSegments = segments

C11_Witness ==
    /\ RebuiltA
    /\ Len(segments) = 2
    /\ Len(WordsInside(1)) = 2
    /\ punctuatedSegments[1].text # segments[1].text
    /\ punctuatedSegments[1].text[1] # " "
    /\ Len(WordsInside(2)) = 0
    /\ punctuatedSegments[2].text = segments[2].text

(***************************************************************************)
(* Properties of the interpolation, under SpecB                            *)
(***************************************************************************)

\* The interpolation loop stands on the first token of a run of unmatched
\* tokens
AtRunB == pcB = "interpolate" /\ ii < Len(result) /\ result[ii + 1].start = Sentinel

\* The length g of the run of unmatched tokens that starts at token i (from 0)
RunLength(res, i) ==
    CHOOSE g \in 1..(Len(res) - i) :
        /\ \A p \in 1..g : res[i + p].start = Sentinel
        /\ i + g = Len(res) \/ res[i + g + 1].start # Sentinel

\* The end of the token before the run (0 if the run is first), and the start
\* of the token after it (the end of the last whisper word if the run is last)
RunPrevEnd(res, i) == IF i = 0 THEN R(0) ELSE res[i].end
RunNextStart(res, i) ==
    IF i + RunLength(res, i) = Len(res) THEN whisperWords[Len(whisperWords)].end
    ELSE res[i + RunLength(res, i) + 1].start
RunStep(res, i) ==
    RDivInt(RSub(RunNextStart(res, i), RunPrevEnd(res, i)), RunLength(res, i) + 1)

\* p + 0.8
PlusEightTenths(p) == <<5 * p + 4, 5>>

\* C12: when the loop reaches a run of g unmatched tokens, the run is maximal
\* (the token before it carries a timestamp), and the step fills exactly the
\* run: its p-th token gets start = prevEnd + step * p and
\* end = prevEnd + step * (p + 0.8) with step = (nextStart - prevEnd) / (g + 1);
\* every other token, and every text, is left as it is.
C12_InterpolationFormula ==
    [][AtRunB =>
        LET i == ii
            g == RunLength(result, i)
            prevEnd == RunPrevEnd(result, i)
            step == RunStep(result, i)
        IN  /\ i > 0 => result[i].start # Sentinel /\ result[i].end # Sentinel
            /\ Len(result') = Len(result)
            /\ \A k \in 1..Len(result) :
                  /\ result'[k].word = result[k].word
                  /\ IF i < k /\ k <= i + g
                     THEN /\ result'[k].start = RAdd(prevEnd, RMul(step, R(k - i)))
                          /\ result'[k].end =
                                RAdd(prevEnd, RMul(step, PlusEightTenths(k - i)))
                     ELSE result'[k] = result[k]]_vars

\* A run of two tokens between two matched tokens has been filled
C12_Witness ==
    /\ ReturnedB
    /\ Len(result) = 4
    /\ Len(whisperWords) = 2
    /\ result[1].end = whisperWords[1].end
    /\ result[4].start = whisperWords[2].start
    /\ RLt(result[1].end, result[4].start)
    /\ result[2].start =
          RAdd(result[1].end, RDivInt(RSub(result[4].start, result[1].end), 3))
    /\ Fractional(2)
    /\ Fractional(3)

\* C13: when the run lies in a gap with nextStart > prevEnd, the filled tokens
\* have strictly increasing starts, each ends before the next starts, the
\* first starts after prevEnd and the last ends before nextStart; for
\* prevEnd = 10, nextStart = 13 and g = 2 the tokens are 11.0-11.8 and
\* 12.0-12.8.
C13_InterpolationMonotone ==
    [][(AtRunB /\ RLt(RunPrevEnd(result, ii), RunNextStart(result, ii))) =>
        LET i == ii
            g == RunLength(result, i)
            prevEnd == RunPrevEnd(result, i)
            nextStart == RunNextStart(result, i)
        IN  /\ \A p \in 1..(g - 1) :
                  /\ RLt(result'[i + p].start, result'[i + p + 1].start)
                  /\ RLt(result'[i + p].end, result'[i + p + 1].start)
            /\ \A p \in 1..g : RLt(result'[i + p].start, result'[i + p].end)
            /\ RLt(prevEnd, result'[i + 1].start)
            /\ RLt(result'[i + g].end, nextStart)
            /\ (prevEnd = R(10) /\ nextStart = R(13) /\ g = 2) =>
                  /\ result'[i + 1].start = R(11)
                  /\ result'[i + 1].end = <<59, 5>>
                  /\ result'[i + 2].start = R(12)
                  /\ result'[i + 2].end = <<64, 5>>]_vars

\* The example gap: a word ending at 10, two unmatched words, a word starting
\* at 13
C13_Witness ==
    /\ ReturnedB
    /\ Len(result) = 4
    /\ result[1].end = R(10)
    /\ result[4].start = R(13)
    /\ result[2] = [word |-> Spaced(w_mir), start |-> R(11), end |-> <<59, 5>>]
    /\ result[3] = [word |-> Spaced(w_mir), start |-> R(12), end |-> <<64, 5>>]

(***************************************************************************)
(* stripPunctuation, editDistance and isFuzzyMatch called on two strings   *)
(***************************************************************************)

MaxStrLen == 4

\* Short strings of a letter and a hyphen, every one of them
AlphabetM == {"a", "-"}
ShortStrings == SeqsUpTo(AlphabetM, MaxStrLen)

s_skazhym     == <<"s", "k", "a", "z", "y", "m">>
s_skazhem     == <<"s", "k", "a", "z", "e", "m">>
s_doma        == <<"d", "o", "m", "a">>
s_domy        == <<"d", "o", "m", "y">>
s_kitten      == <<"k", "i", "t", "t", "e", "n">>
s_sitting     == <<"s", "i", "t", "t", "i", "n", "g">>
s_ktoto       == <<"k", "t", "o", "-", "t", "o">>
s_quoted      == <<"laquo", "P", "r", "i", "v", "e", "t", "raquo">>
s_dotsWord    == <<".", ".", ".", "k", "t", "o", "-", "t", "o", "!">>
s_programmist == <<"p", "r", "o", "g", "r", "a", "m", "m", "i", "s", "t">>
\* programmist with 3 and with 4 letters replaced
s_prxgrxmmxst == <<"p", "r", "x", "g", "r", "x", "m", "m", "x", "s", "t">>
s_prxgrxmmxsx == <<"p", "r", "x", "g", "r", "x", "m", "m", "x", "s", "x">>

\* Pairs of longer words: the words of the tests and words on the two sides
\* of the tolerance
NamedPairs ==
    {<<s_skazhym, s_skazhem>>, <<w_pogramma, w_programma>>, <<w_dela, s_domy>>,
     <<w_dela, s_doma>>, <<w_dela, w_dela>>, <<w_kak, w_kak>>, <<w_kak, w_kok>>,
     <<s_kitten, s_sitting>>, <<s_programmist, s_prxgrxmmxst>>,
     <<s_programmist, s_prxgrxmmxsx>>, <<w_programma, w_programma>>,
     <<s_ktoto, w_dots>>, <<s_quoted, w_emdash>>, <<s_dotsWord, s_ktoto>>}

InputsM ==
    (ShortStrings \X ShortStrings) \cup NamedPairs \cup {<<pr[2], pr[1]>> : pr \in NamedPairs}

InitM ==
    /\ \E input \in InputsM :
          /\ strA = input[1]
          /\ strB = input[2]
    /\ distAB = -1
    /\ distBA = -1
    /\ fuzzyAB = FALSE
    /\ fuzzyBA = FALSE
    /\ stripped = <<>>
    /\ strippedTwice = <<>>
    /\ pcM = "ready"
    /\ IdleA
    /\ IdleB
    /\ IdleH

\* editDistance is called on the two strings, in both orders
M_EditDistance ==
    /\ pcM = "ready"
    /\ distAB' = editDistance(strA, strB)
    /\ distBA' = editDistance(strB, strA)
    /\ pcM' = "distance"
    /\ UNCHANGED <<strA, strB, fuzzyAB, fuzzyBA, stripped, strippedTwice>>
    /\ UNCHANGED <<varsA, varsB, varsH>>

\* isFuzzyMatch is called on the two strings, in both orders
M_IsFuzzyMatch ==
    /\ pcM = "distance"
    /\ fuzzyAB' = isFuzzyMatch(strA, strB)
    /\ fuzzyBA' = isFuzzyMatch(strB, strA)
    /\ pcM' = "fuzzy"
    /\ UNCHANGED <<strA, strB, distAB, distBA, stripped, strippedTwice>>
    /\ UNCHANGED <<varsA, varsB, varsH>>

\* stripPunctuation is called on a, and again on its result
M_StripPunctuation ==
    /\ pcM = "fuzzy"
    /\ stripped' = stripPunctuation(strA)
    /\ strippedTwice' = stripPunctuation(stripPunctuation(strA))
    /\ pcM' = "done"
    /\ UNCHANGED <<strA, strB, distAB, distBA, fuzzyAB, fuzzyBA>>
    /\ UNCHANGED <<varsA, varsB, varsH>>

NextM ==
    \/ M_EditDistance
    \/ M_IsFuzzyMatch
    \/ M_StripPunctuation

SpecM == InitM /\ [][NextM]_vars

(***************************************************************************)
(* Properties of the three string functions, under SpecM                   *)
(***************************************************************************)

DistanceKnown == pcM \in {"distance", "fuzzy", "done"}
FuzzyKnown == pcM \in {"fuzzy", "done"}
StrippedKnown == pcM = "done"

\* C14: isFuzzyMatch(a, b) is false when a or b has fewer than 4 characters,
\* even when a = b; otherwise it is true exactly when the distance is at most
\* the larger of 2 and floor(0.3 * max(len(a), len(b))).  Two 6-character
\* strings at distance 1 match, two 4-character strings at distance 3 do not,
\* identical strings of 4 or more characters match.
C14_FuzzyThreshold ==
    FuzzyKnown =>
        LET maxLen == IF Len(strA) >= Len(strB) THEN Len(strA) ELSE Len(strB)
            floor  == (3 * maxLen) \div 10
            limit  == IF floor > 2 THEN floor ELSE 2
        IN  /\ (Len(strA) < 4 \/ Len(strB) < 4) => ~fuzzyAB
            /\ (Len(strA) >= 4 /\ Len(strB) >= 4) => (fuzzyAB <=> distAB <= limit)
            /\ (Len(strA) = 6 /\ Len(strB) = 6 /\ distAB = 1) => fuzzyAB
            /\ (Len(strA) = 4 /\ Len(strB) = 4 /\ distAB = 3) => ~fuzzyAB
            /\ (strA = strB /\ Len(strA) >= 4) => fuzzyAB

\* A pair of 11 characters at distance 3 has matched: the tolerance was 3
C14_Witness ==
    /\ FuzzyKnown
    /\ strA = s_programmist
    /\ strB = s_prxgrxmmxst
    /\ distAB = 3
    /\ fuzzyAB

\* C15: editDistance and isFuzzyMatch give the same result with their
\* arguments exchanged, also when the two strings differ in length.
C15_Symmetric ==
    /\ DistanceKnown => distAB = distBA
    /\ FuzzyKnown => fuzzyAB = fuzzyBA

\* Two strings of different lengths, the longer one first, have matched
C15_Witness ==
    /\ FuzzyKnown
    /\ Len(strA) > Len(strB)
    /\ distAB = 1
    /\ fuzzyAB
    /\ fuzzyBA

\* The classic Levenshtein distance, by its recursive definition
RECURSIVE Levenshtein(_, _)
Levenshtein(a, b) ==
    IF Len(a) = 0 THEN Len(b)
    ELSE IF Len(b) = 0 THEN Len(a)
    ELSE IF Head(a) = Head(b) THEN Levenshtein(Tail(a), Tail(b))
    ELSE 1 + Min3(Levenshtein(Tail(a), b),
                  Levenshtein(a, Tail(b)),
                  Levenshtein(Tail(a), Tail(b)))

LetterPositions(w) == {k \in 1..Len(w) : w[k] \notin PunctChars}

\* w from its first to its last such character
BetweenLetters(w) ==
    IF LetterPositions(w) = {} THEN <<>>
    ELSE SubSeq(w, CHOOSE k \in LetterPositions(w) : \A x \in LetterPositions(w) : k <= x,
                   CHOOSE k \in LetterPositions(w) : \A x \in LetterPositions(w) : k >= x)

\* C17: stripPunctuation(w) is w from its first to its last character that is
\* not punctuation: what lies between is kept (the hyphen of kto-to), a word
\* without punctuation at its edges is returned as it is, a word of
\* punctuation only gives the empty string, and stripping twice is stripping
\* once.
C17_StripsEdgesOnly ==
    StrippedKnown =>
        /\ stripped = BetweenLetters(strA)
        /\ (Len(strA) > 0 /\ strA[1] \notin PunctChars /\ strA[Len(strA)] \notin PunctChars)
              => stripped = strA
        /\ LetterPositions(strA) = {} => stripped = <<>>
        /\ strA = s_ktoto => stripped = s_ktoto
        /\ strippedTwice = stripped

\* A word with punctuation at both ends and inside has been stripped
C17_Witness ==
    /\ StrippedKnown
    /\ strA = s_dotsWord
    /\ stripped = s_ktoto
    /\ strippedTwice = stripped

(***************************************************************************)
(* createHeartbeat                                                         *)
(***************************************************************************)

MaxSeconds == 4
MaxStopCalls == 3
MaxTicksAfterStop == 3

\* What messageBuilder(seconds) returns: a message, { percent, message },
\* or nothing (an empty string, null, undefined)
Builders == {"string", "object", "nothing"}

\* isStopped: () => stopped
isStopped == stopped

\* createHeartbeat(onProgress, type, messageBuilder): setInterval has been
\* called and the object returned
InitH ==
    /\ seconds = 0
    /\ stopped = FALSE
    /\ interval = TRUE
    /\ builder \in Builders
    /\ progressCalls = 0
    /\ stopCalls = 0
    /\ ticksAfterStop = 0
    /\ pcH = "running"
    /\ IdleA
    /\ IdleB
    /\ IdleM

\* The interval fires and its callback runs
H_Tick ==
    /\ pcH = "running"
    /\ interval
    /\ seconds < MaxSeconds
    /\ IF ~stopped
       THEN /\ seconds' = seconds + 1
            /\ progressCalls' =
                  IF builder \in {"string", "object"} THEN progressCalls + 1
                  ELSE progressCalls
       ELSE UNCHANGED <<seconds, progressCalls>>
    /\ UNCHANGED <<stopped, interval, builder, stopCalls, ticksAfterStop, pcH>>
    /\ UNCHANGED <<varsA, varsB, varsM>>

\* One more interval of time passes after the timer was cleared: no callback
H_TimePasses ==
    /\ pcH = "running"
    /\ ~interval
    /\ ticksAfterStop < MaxTicksAfterStop
    /\ ticksAfterStop' = ticksAfterStop + 1
    /\ UNCHANGED <<seconds, stopped, interval, builder, progressCalls, stopCalls, pcH>>
    /\ UNCHANGED <<varsA, varsB, varsM>>

\* Mutant: the test of stop() is inverted
H_StopInverted ==
    /\ pcH = "running"
    /\ stopCalls < MaxStopCalls
    /\ stopCalls' = stopCalls + 1
    /\ IF stopped
       THEN stopped' = TRUE /\ interval' = FALSE
       ELSE UNCHANGED <<stopped, interval>>
    /\ UNCHANGED <<seconds, builder, progressCalls, ticksAfterStop, pcH>>
    /\ UNCHANGED <<varsA, varsB, varsM>>

\* stop: () => { if (!stopped) { stopped = true; clearInterval(interval) } }
H_Stop ==
    /\ pcH = "running"
    /\ stopCalls < MaxStopCalls
    /\ stopCalls' = stopCalls + 1
    /\ IF ~stopped
       THEN stopped' = TRUE /\ interval' = FALSE
       ELSE UNCHANGED <<stopped, interval>>
    /\ UNCHANGED <<seconds, builder, progressCalls, ticksAfterStop, pcH>>
    /\ UNCHANGED <<varsA, varsB, varsM>>

NextH ==
    \/ H_Tick
    \/ H_TimePasses
    \/ H_Stop

SpecH == InitH /\ [][NextH]_vars

(***************************************************************************)
(* Properties of createHeartbeat, under SpecH                              *)
(***************************************************************************)

\* C18: isStopped() is false before the first stop() and true after it, also
\* after further calls of stop(); once stop() has been called no step calls
\* onProgress or advances seconds, however much time passes.
C18_SilentAfterStop ==
    /\ [](isStopped <=> stopCalls > 0)
    /\ [][stopCalls > 0 =>
             /\ progressCalls' = progressCalls
             /\ seconds' = seconds
             /\ isStopped']_vars

\* The heartbeat reported, was stopped more than once, and time went on
C18_Witness ==
    /\ pcH = "running"
    /\ progressCalls = 2
    /\ stopCalls = MaxStopCalls
    /\ ticksAfterStop = MaxTicksAfterStop
    /\ isStopped

(***************************************************************************)
(* Properties of the steps of the walk of addPunctuation, under SpecA      *)
(***************************************************************************)

\* The source word x and the reply word y are equal or a fuzzy match after
\* normalization
SameWordTable ==
    [x \in AllWords, y \in AllWords |->
        LET xb == toLowerCase(stripPunctuation(x))
            yb == toLowerCase(stripPunctuation(y))
        IN  xb = yb \/ isFuzzyMatch(xb, yb)]

SameWord(x, y) == SameWordTable[x, y]

\* The source word and the reply word the walk stands on
SourceHere == batchWords[oiA + 1]
ReplyAt(k) == punctuatedBatch[piA + k + 1]

\* The white space w starts with
LeadingSpaces(w) ==
    LET others == {k \in 1..Len(w) : w[k] \notin WhitespaceChars}
    IN  IF others = {} THEN w
        ELSE SubSeq(w, 1, (CHOOSE k \in others : \A x \in others : k <= x) - 1)

\* The output token for the source word here with the text of reply word k
TokenWithReply(k) ==
    [word  |-> LeadingSpaces(SourceHere.word) \o ReplyAt(k),
     start |-> SourceHere.start,
     end   |-> SourceHere.end]

\* The walk stands on a source word and a reply word that match
AtDirectA ==
    /\ pcA = "walk"
    /\ oiA < Len(batchWords)
    /\ piA < Len(punctuatedBatch)
    /\ SameWord(SourceHere.word, ReplyAt(0))

\* C19: when the source word and the reply word under the two pointers are
\* equal or a fuzzy match after normalization, the step appends one token
\* with the reply's text after the source word's leading whitespace and the
\* source word's start and end, adds one to matched, and advances both
\* pointers by one.
C19_DirectStep ==
    [][AtDirectA =>
          /\ punctuatedWords' = Append(punctuatedWords, TokenWithReply(0))
          /\ matched' = matched + 1
          /\ oiA' = oiA + 1
          /\ piA' = piA + 1]_vars

\* pogramma has been matched with programma by a direct step
C19_Witness ==
    /\ pcA = "walk"
    /\ branchA = "direct"
    /\ oiA = 2
    /\ piA = 2
    /\ matched = 2
    /\ batchWords[2].word = Spaced(w_pogramma)
    /\ punctuatedBatch[2] = w_programma
    /\ punctuatedWords[bi + 2] =
          [word |-> Spaced(w_programma), start |-> R(1), end |-> R(2)]

\* The distances k in 1..3, inside the reply, at which a reply word matches
\* the source word here
AheadHits ==
    {k \in 1..3 : piA + k < Len(punctuatedBatch) /\ SameWord(SourceHere.word, ReplyAt(k))}

\* The walk stands on a source word and a reply word that do not match
AtMismatchA ==
    /\ pcA = "walk"
    /\ oiA < Len(batchWords)
    /\ piA < Len(punctuatedBatch)
    /\ ~SameWord(SourceHere.word, ReplyAt(0))

\* C20: when the source word does not match the reply word under the pointer
\* but matches one 1 to 3 words ahead inside the reply, the nearest such word
\* is taken: the step appends one token, that reply word's text with the
\* source word's timing, and nothing for the reply words skipped, adds one to
\* matched, and advances oi by 1 and pi by k + 1.  When no reply word 1 to 3
\* ahead matches, no reply text is used, even if a word further ahead
\* matches: only source words are appended and pi stays.
C20_ForwardLookaheadStep ==
    [][AtMismatchA =>
          IF AheadHits # {}
          THEN LET k == CHOOSE h \in AheadHits : \A x \in AheadHits : h <= x
               IN  /\ punctuatedWords' = Append(punctuatedWords, TokenWithReply(k))
                   /\ matched' = matched + 1
                   /\ oiA' = oiA + 1
                   /\ piA' = piA + k + 1
          ELSE /\ matched' = matched
               /\ piA' = piA
               /\ oiA' > oiA
               /\ punctuatedWords' =
                     punctuatedWords \o SubSeq(batchWords, oiA + 1, oiA')]_vars

\* The forward lookahead has skipped two reply words, with a second matching
\* word inside its window
C20_Witness ==
    /\ pcA = "walk"
    /\ branchA = "forward"
    /\ oiA = 1
    /\ piA = 3
    /\ matched = 1
    /\ Len(punctuatedBatch) = 4
    /\ punctuatedBatch[3] = punctuatedBatch[4]
    /\ punctuatedWords[bi + 1].word = LeadingSpaces(batchWords[1].word) \o punctuatedBatch[3]

\* A reply word four words ahead matched the source word and was not used
C20_FarWitness ==
    /\ ReturnedA
    /\ Len(outcomes) = 1
    /\ ~outcomes[1].thrown
    /\ outcomes[1].reply = FarReply
    /\ Len(transcriptWords) = 1
    /\ transcriptWords[1].word = Spaced(w_privet)
    /\ punctuatedWords = transcriptWords
    /\ matched = 0

\* The distances k in 1..3, inside the batch, at which a later source word
\* matches the reply word here
BehindHits ==
    {k \in 1..3 : oiA + k < Len(batchWords)
                     /\ SameWord(batchWords[oiA + k + 1].word, ReplyAt(0))}

\* The last step of the walk was a reverse lookahead
AfterReverseA == pcA = "walk" /\ branchA = "reverse"

\* C21: the reverse lookahead is taken only when the direct match and the
\* forward lookahead have failed; when a source word 1 to 3 ahead matches the
\* reply word under the pointer, the source words before the nearest such
\* word are appended as they are (own text, own timing), oi advances past
\* them, pi and matched stay, and the very next step is a direct match of
\* the new source word with the same reply word.
C21_ReverseLookaheadStep ==
    [][/\ (AtMismatchA /\ AheadHits = {} /\ BehindHits # {}) =>
             LET k == CHOOSE h \in BehindHits : \A x \in BehindHits : h <= x
             IN  /\ punctuatedWords' =
                       punctuatedWords \o SubSeq(batchWords, oiA + 1, oiA + k)
                 /\ oiA' = oiA + k
                 /\ piA' = piA
                 /\ matched' = matched
                 /\ branchA' = "reverse"
       /\ (pcA = "walk" /\ pcA' = "walk" /\ oiA' # oiA /\ branchA' = "reverse") =>
             (AtMismatchA /\ AheadHits = {})
       /\ AfterReverseA =>
             /\ AtDirectA
             /\ punctuatedWords' = Append(punctuatedWords, TokenWithReply(0))
             /\ oiA' = oiA + 1
             /\ piA' = piA + 1
             /\ branchA' = "direct"]_vars

\* Two source words were skipped by the reverse lookahead and the third was
\* then matched with the first reply word
C21_Witness ==
    /\ pcA = "walk"
    /\ branchA = "direct"
    /\ oiA = 3
    /\ piA = 1
    /\ matched = 1
    /\ Len(punctuatedWords) = bi + 3
    /\ punctuatedWords[bi + 1] = batchWords[1]
    /\ punctuatedWords[bi + 2] = batchWords[2]
    /\ punctuatedWords[bi + 3].word # batchWords[3].word

\* The walk stands on a source word for which there is no reply word left
AtTailA == pcA = "walk" /\ oiA < Len(batchWords) /\ piA >= Len(punctuatedBatch)

\* C22: when the source word matches neither the reply word under the
\* pointer nor a reply word 1 to 3 ahead, and no source word 1 to 3 ahead
\* matches that reply word, or when the reply is exhausted, the source word
\* is appended as it is, oi advances by one, pi and matched stay; so once
\* the reply is exhausted it stays exhausted and the remaining source words
\* are kept in order.
C22_MissAndTailStep ==
    [][((AtMismatchA /\ AheadHits = {} /\ BehindHits = {}) \/ AtTailA) =>
          /\ punctuatedWords' = Append(punctuatedWords, SourceHere)
          /\ oiA' = oiA + 1
          /\ piA' = piA
          /\ matched' = matched
          /\ AtTailA => (pcA' = "walk" /\ piA' >= Len(punctuatedBatch'))]_vars

\* A miss in the middle of the reply and two words kept after its end
C22_Witness ==
    /\ WalkEndedA
    /\ branchA = "outOfPunctuated"
    /\ Len(batchWords) = 4
    /\ Len(punctuatedBatch) = 2
    /\ punctuatedBatch[1] = w_emdash
    /\ piA = 2
    /\ matched = 1
    /\ PushedForBatch[1] = batchWords[1]
    /\ PushedForBatch[2].word # batchWords[2].word
    /\ PushedForBatch[3] = batchWords[3]
    /\ PushedForBatch[4] = batchWords[4]

(***************************************************************************)
(* Properties of the steps of the walk of alignWhisperToOriginal, under    *)
(* SpecB.  The match test is SameWord, computed from stripPunctuation,     *)
(* toLowerCase and isFuzzyMatch.                                           *)
(***************************************************************************)

\* The script word and the whisper word the walk stands on
OriginalHere == originalWords[oi + 1]
WhisperAt(k) == whisperWords[wi + k + 1]

\* The text of the output token of script word k (from 0)
TextB(k) == (IF k > 0 THEN <<" ">> ELSE <<>>) \o originalWords[k + 1]

\* The walk stands on a script word and a whisper word
AtPairB == pcB = "walk" /\ oi < Len(originalWords) /\ wi < Len(whisperWords)

AtDirectB == AtPairB /\ SameWord(OriginalHere, WhisperAt(0).word)
AtMismatchB == AtPairB /\ ~SameWord(OriginalHere, WhisperAt(0).word)

\* The distances 1 to 3 at which a whisper word ahead matches the script word
WhisperAheadHits ==
    {k \in 1..3 : wi + k < Len(whisperWords)
                     /\ SameWord(WhisperAt(k).word, OriginalHere)}

\* The distances 1 to 3 at which a script word ahead matches the whisper word
OriginalAheadHits ==
    {k \in 1..3 : oi + k < Len(originalWords)
                     /\ SameWord(originalWords[oi + k + 1], WhisperAt(0).word)}

\* C23: when the script word does not match the whisper word under the
\* pointer but matches a whisper word 1 to 3 ahead, the walk takes the
\* smallest such distance k, whether or not a script word ahead matches too:
\* the script word is appended with the start and end of whisper word
\* wi + k, wi advances by k + 1 and oi by 1, so the k skipped whisper words
\* give their timing to no token; whisper words are skipped in no other case.
C23_SourceLookaheadStep ==
    [][/\ (AtMismatchB /\ WhisperAheadHits # {}) =>
             LET k == CHOOSE h \in WhisperAheadHits : \A x \in WhisperAheadHits : h <= x
             IN  /\ result' = Append(result, [word  |-> TextB(oi),
                                              start |-> WhisperAt(k).start,
                                              end   |-> WhisperAt(k).end])
                 /\ wi' = wi + k + 1
                 /\ oi' = oi + 1
       /\ (pcB = "walk" /\ pcB' = "walk" /\ wi' # wi /\ wi' # wi + 1) =>
             (AtMismatchB /\ WhisperAheadHits # {})]_vars

\* Three whisper words were skipped for the first script word, although the
\* second script word matched the whisper word under the pointer
C23_Witness ==
    /\ pcB = "walk"
    /\ branchB = "whisperLookahead"
    /\ Len(whisperWords) = 4
    /\ Len(originalWords) = 2
    /\ wi = 4
    /\ oi = 1
    /\ SameWord(originalWords[2], whisperWords[1].word)
    /\ Len(result) = 1
    /\ result[1].start = whisperWords[4].start
    /\ result[1].end = whisperWords[4].end

\* The walk has just skipped script words
AfterOriginalLookaheadB == pcB = "walk" /\ branchB = "originalLookahead"

\* C24: when the script word matches neither the whisper word under the
\* pointer nor a whisper word 1 to 3 ahead, and a script word 1 to 3 ahead
\* matches the whisper word, the walk takes the smallest such distance k:
\* the k script words oi .. oi + k - 1 are appended with the sentinel as
\* start and end, oi advances by k and wi stays; the next step is then a
\* direct match of script word oi + k with the same whisper word.
C24_TargetLookaheadStep ==
    [][/\ (AtMismatchB /\ WhisperAheadHits = {} /\ OriginalAheadHits # {}) =>
             LET k == CHOOSE h \in OriginalAheadHits : \A x \in OriginalAheadHits : h <= x
             IN  /\ result' = result \o [n \in 1..k |-> [word  |-> TextB(oi + n - 1),
                                                         start |-> R(0 - 1),
                                                         end   |-> R(0 - 1)]]
                 /\ oi' = oi + k
                 /\ wi' = wi
                 /\ branchB' = "originalLookahead"
       /\ (pcB = "walk" /\ pcB' = "walk" /\ oi' # oi /\ branchB' = "originalLookahead") =>
             (AtMismatchB /\ WhisperAheadHits = {})
       /\ AfterOriginalLookaheadB =>
             /\ AtDirectB
             /\ result' = Append(result, [word  |-> TextB(oi),
                                          start |-> WhisperAt(0).start,
                                          end   |-> WhisperAt(0).end])
             /\ wi' = wi + 1
             /\ oi' = oi + 1
             /\ branchB' = "direct"]_vars

\* After a miss, three script words were skipped and the fifth was matched
\* with the only whisper word
C24_Witness ==
    /\ pcB = "walk"
    /\ branchB = "direct"
    /\ Len(originalWords) = 5
    /\ Len(whisperWords) = 1
    /\ oi = 5
    /\ wi = 1
    /\ Len(result) = 5
    /\ \A n \in 1..4 : result[n].start = R(0 - 1) /\ result[n].end = R(0 - 1)
    /\ result[5].start = whisperWords[1].start
    /\ result[5].end = whisperWords[1].end

\* The walk stands on a script word for which there is no whisper word left
AtTailB == pcB = "walk" /\ oi < Len(originalWords) /\ wi >= Len(whisperWords)

\* x lies between a and b, whichever of the two is the larger
Between(x, a, b) == (RLe(a, x) /\ RLe(x, b)) \/ (RLe(b, x) /\ RLe(x, a))

\* The run of unmatched tokens the interpolation loop stands on is the last
\* one: no token after it carries a timestamp
AtTrailingRunB == AtRunB /\ ii + RunLength(result, ii) = Len(result)

\* C25: when the script word matches nothing in either window, or the
\* whisper words are exhausted, the script word is appended with the
\* sentinel as start and end, oi advances by one and wi stays.  When the
\* interpolation fills the run of unmatched tokens at the end of the result,
\* the start and the end of each of its tokens lie between the end of the
\* last matched token (0 if there is none) and the end of the last whisper
\* word; when the former is not after the latter, each token starts at or
\* after the former and ends at or before the latter.
C25_MissAndTailStep ==
    [][/\ ((AtMismatchB /\ WhisperAheadHits = {} /\ OriginalAheadHits = {}) \/ AtTailB) =>
             /\ result' = Append(result, [word  |-> TextB(oi),
                                          start |-> R(0 - 1),
                                          end   |-> R(0 - 1)])
             /\ oi' = oi + 1
             /\ wi' = wi
       /\ AtTrailingRunB =>
             LET lastMatchedEnd == IF ii = 0 THEN R(0) ELSE result[ii].end
                 lastSourceEnd == whisperWords[Len(whisperWords)].end
             IN  /\ ii > 0 => result[ii].end # R(0 - 1)
                 /\ \A n \in (ii + 1)..Len(result) :
                       /\ Between(result'[n].start, lastMatchedEnd, lastSourceEnd)
                       /\ Between(result'[n].end, lastMatchedEnd, lastSourceEnd)
                       /\ RLe(lastMatchedEnd, lastSourceEnd) =>
                             /\ RLe(lastMatchedEnd, result'[n].start)
                             /\ RLe(result'[n].start, result'[n].end)
                             /\ RLe(result'[n].end, lastSourceEnd)]_vars

\* One matched token, then two script words that match nothing, interpolated
\* between the end of the matched token and the end of the last whisper word
C25_Witness ==
    /\ ReturnedB
    /\ Len(whisperWords) = 2
    /\ Len(result) = 3
    /\ branchB = "noMatch"
    /\ wi = 1
    /\ result[1].end = whisperWords[1].end
    /\ RLt(result[1].end, result[2].start)
    /\ RLt(result[2].end, result[3].start)
    /\ RLt(result[3].end, whisperWords[2].end)

\* The whisper words are time-ordered and do not overlap: 0 <= start <= end
\* for each, and each ends no later than the next starts
TimeOrderedSource ==
    /\ \A k \in 1..Len(whisperWords) :
          /\ RLe(R(0), whisperWords[k].start)
          /\ RLe(whisperWords[k].start, whisperWords[k].end)
    /\ \A k \in 1..(Len(whisperWords) - 1) :
          RLe(whisperWords[k].end, whisperWords[k + 1].start)

\* C27: in the walk wi never decreases, and a token appended with a
\* timestamp takes the start and end of a whisper word at wi or after it,
\* and wi moves past that word: the whisper indices used strictly increase.
\* When the whisper words are time-ordered and do not overlap, the returned
\* tokens have non-decreasing starts and each ends no later than the next
\* starts, interpolated tokens included.
C27_TimeOrder ==
    /\ [][pcB = "walk" =>
            /\ wi' >= wi
            /\ (Len(result') > Len(result)
                  /\ result'[Len(result')].start # R(0 - 1)) =>
                  /\ Len(result') = Len(result) + 1
                  /\ \E k \in 0..3 :
                        /\ wi + k < Len(whisperWords)
                        /\ result'[Len(result')].start = WhisperAt(k).start
                        /\ result'[Len(result')].end = WhisperAt(k).end
                        /\ wi' = wi + k + 1]_vars
    /\ []((ReturnedB /\ TimeOrderedSource) =>
            \A n \in 1..(Len(result) - 1) :
                /\ RLe(result[n].start, result[n + 1].start)
                /\ RLe(result[n].end, result[n + 1].start))

\* Time-ordered whisper words; the first and the third give their timing to
\* the first and the fourth token, the second is skipped, and two
\* interpolated tokens lie in between
C27_Witness ==
    /\ ReturnedB
    /\ TimeOrderedSource
    /\ Len(whisperWords) = 3
    /\ Len(result) = 4
    /\ result[1].end = whisperWords[1].end
    /\ result[4].start = whisperWords[3].start
    /\ RLt(result[1].end, result[2].start)
    /\ RLt(result[2].end, result[3].start)
    /\ RLt(result[3].end, result[4].start)

(***************************************************************************)
(* Properties of the whole walk of addPunctuation, under SpecA             *)
(***************************************************************************)

\* The step from here takes the text of a reply word
UsesReplyA == AtDirectA \/ (AtMismatchA /\ AheadHits # {})

\* C28: a step of the walk either appends one token with the text of reply
\* word pi + k (k in 0..3), moves pi past that word and adds one to matched,
\* or appends source words as they are and leaves pi and matched: the reply
\* indices used strictly increase and matched counts the tokens whose text
\* came from the reply.  So matched never exceeds oi or pi, hence neither the
\* length of the batch nor the length of the reply.
C28_TargetOrderAndCount ==
    /\ [][(pcA = "walk" /\ oiA < Len(batchWords)) =>
            IF UsesReplyA
            THEN \E k \in 0..3 :
                    /\ piA + k < Len(punctuatedBatch)
                    /\ punctuatedWords' = Append(punctuatedWords, TokenWithReply(k))
                    /\ oiA' = oiA + 1
                    /\ piA' = piA + k + 1
                    /\ matched' = matched + 1
            ELSE \E n \in 1..(Len(batchWords) - oiA) :
                    /\ punctuatedWords' =
                          punctuatedWords \o SubSeq(batchWords, oiA + 1, oiA + n)
                    /\ oiA' = oiA + n
                    /\ piA' = piA
                    /\ matched' = matched]_vars
    /\ [](pcA = "walk" =>
            /\ matched <= oiA
            /\ matched <= piA
            /\ oiA <= Len(batchWords)
            /\ piA <= Len(punctuatedBatch))

\* The example run: three source words, five reply words of which two are
\* skipped, three tokens with the reply's text
C28_Witness ==
    /\ WalkEndedA
    /\ Len(batchWords) = 3
    /\ Len(punctuatedBatch) = 5
    /\ piA = 4
    /\ matched = 3
    /\ PushedForBatch[1].word = punctuatedBatch[1]
    /\ PushedForBatch[2].word = punctuatedBatch[3]
    /\ PushedForBatch[3].word = punctuatedBatch[4]

\* The reply has the length of the batch, matches it word for word except at
\* position p (from 0), and the two words at p match nothing on the other side
SubstitutedAt(p) ==
    /\ Len(punctuatedBatch) = Len(batchWords)
    /\ p < Len(batchWords)
    /\ \A q \in 1..Len(batchWords) :
          /\ q # p + 1 => SameWord(batchWords[q].word, punctuatedBatch[q])
          /\ ~SameWord(batchWords[q].word, punctuatedBatch[p + 1])
          /\ ~SameWord(batchWords[p + 1].word, punctuatedBatch[q])

\* C30: when the reply is the batch with the word at one position p replaced
\* by a word that matches nothing, the walk keeps the source word at p as it
\* is and gives every other position q the text of reply word q with the
\* source word's timing; after the miss at p the next step takes reply word
\* p + 1 for source word p + 1, and the two pointers are level again.
C30_SubstitutionRecovery ==
    /\ []((WalkEndedA /\ \E p \in 0..(Len(batchWords) - 1) : SubstitutedAt(p)) =>
            LET p == CHOOSE x \in 0..(Len(batchWords) - 1) : SubstitutedAt(x)
            IN  /\ Len(PushedForBatch) = Len(batchWords)
                /\ matched = Len(batchWords) - 1
                /\ \A q \in 1..Len(batchWords) :
                      IF q = p + 1
                      THEN PushedForBatch[q] = batchWords[q]
                      ELSE PushedForBatch[q] =
                              [word  |-> LeadingSpaces(batchWords[q].word)
                                             \o punctuatedBatch[q],
                               start |-> batchWords[q].start,
                               end   |-> batchWords[q].end])
    /\ [][(pcA = "walk" /\ oiA < Len(batchWords) /\ oiA > 0 /\ piA = oiA - 1
             /\ SubstitutedAt(oiA - 1)) =>
            /\ oiA' = oiA + 1
            /\ piA' = oiA + 1]_vars

\* Three source words and three reply words, the second replaced by a dash
C30_Witness ==
    /\ WalkEndedA
    /\ Len(batchWords) = 3
    /\ SubstitutedAt(1)
    /\ punctuatedBatch[2] = w_emdash
    /\ PushedForBatch[2] = batchWords[2]
    /\ PushedForBatch[1].word # batchWords[1].word
    /\ PushedForBatch[3].word # batchWords[3].word
    /\ piA = 3

(***************************************************************************)
(* The two walks together: a run of addPunctuation or a run of             *)
(* alignWhisperToOriginal.  Both functions run to their return: the walk   *)
(* and the interpolation are synchronous loops, and the awaited request of *)
(* a batch settles (it resolves or throws), so a step that is possible is  *)
(* eventually taken.                                                       *)
(***************************************************************************)

InitAB == InitA \/ InitB

NextAB ==
    \/ NextA
    \/ NextB

SpecAB == InitAB /\ [][NextAB]_vars

\* The steps of alignWhisperToOriginal outside the interpolation loop
WalkB ==
    \/ B_EmptyFallback
    \/ B_Enter
    \/ B_Direct
    \/ B_WhisperLookahead
    \/ B_OriginalLookahead
    \/ B_NoMatch
    \/ B_NoMoreWhisper
    \/ B_WalkDone
    \/ B_Return

\* One iteration of the interpolation loop, as far as i is concerned: a step
\* of B_InterpKeep or of B_InterpFill
InterpIteration == pcB = "interpolate" /\ ii < Len(result) /\ ii' = ii + 1

\* The runs whose termination is checked: the transcripts of up to
\* MaxWordsA - 1 words and the three-batch transcript, without segments; the
\* whisper words with pauses and the scripts of up to MaxOriginal - 1 words,
\* and the named inputs
InitT ==
    \/ /\ apiKey \in BOOLEAN
       /\ \/ /\ transcriptWords \in
                   {Timed(ws) : ws \in SeqsUpTo(SourceVocabA, MaxWordsA - 1)}
                       \cup {Timed(ExampleWords), Timed(DashWords)}
             /\ service = "any"
          \/ transcriptWords = Timed(LongWords) /\ service = "few"
       /\ segments = <<>>
       /\ StartA
       /\ IdleB
       /\ IdleM
       /\ IdleH
    \/ /\ \E input \in
               ({WithTiming(ws, "pauses") : ws \in SeqsUpTo(WhisperVocab, MaxWhisper)}
                    \X SeqsUpTo(OriginalVocab, MaxOriginal - 1))
                   \cup {<<<<>>, ExampleOriginal>>} \cup NamedInputsB :
             /\ whisperWords = input[1]
             /\ originalWords = input[2]
       /\ result = <<>>
       /\ wi = 0
       /\ oi = 0
       /\ ii = 0
       /\ pcB = "entry"
       /\ branchB = "none"
       /\ IdleA
       /\ IdleM
       /\ IdleH

FairSpecAB ==
    /\ InitT
    /\ [][NextAB]_vars
    /\ WF_vars(NextA)
    /\ WF_vars(WalkB)
    /\ WF_ii(InterpIteration)

\* No token of the result carries the sentinel
AllFilledB == \A n \in 1..Len(result) : result[n].start # R(0 - 1) /\ result[n].end # R(0 - 1)

\* C26: every iteration of the walk of addPunctuation advances oi by at
\* least 1 and never moves pi back; every iteration of the walk of
\* alignWhisperToOriginal advances oi by at least 1 and never moves wi back;
\* every iteration of the interpolation loop advances i by 1; no pointer
\* exceeds the length of its sequence while its loop runs, and an iteration
\* starts only with its pointer inside the sequence.  Hence every walk ends, and the interpolation ends
\* with every run filled.
C26_Termination ==
    /\ [][/\ (pcA = "walk" /\ pcA' = "walk") =>
                (oiA < Len(batchWords) /\ oiA' >= oiA + 1 /\ piA' >= piA)
          /\ (pcB = "walk" /\ pcB' = "walk") =>
                (oi < Len(originalWords) /\ oi' >= oi + 1 /\ wi' >= wi)
          /\ (pcB = "interpolate" /\ pcB' = "interpolate") =>
                (ii < Len(result) /\ ii' = ii + 1)]_vars
    /\ [](/\ pcA = "walk" => (oiA <= Len(batchWords) /\ piA <= Len(punctuatedBatch))
          /\ pcB = "walk" => (oi <= Len(originalWords) /\ wi <= Len(whisperWords))
          /\ pcB = "interpolate" => ii <= Len(result))
    /\ (pcA = "walk") ~> WalkEndedA
    /\ (pcB = "walk") ~> (pcB = "interpolate" /\ oi = Len(originalWords))
    /\ (pcB = "interpolate") ~> (ReturnedB /\ AllFilledB)

\* A walk of three source words has ended after a reverse lookahead of two
\* words
C26_Witness ==
    /\ WalkEndedA
    /\ Len(batchWords) = 3
    /\ oiA = 3
    /\ piA = 1
    /\ matched = 1
    /\ PushedForBatch[1] = batchWords[1]
    /\ PushedForBatch[2] = batchWords[2]

\* The word has no letter or digit: its normalized form is empty
PunctOnly(w) == toLowerCase(stripPunctuation(w)) = <<>>

\* C29: two words that both normalize to the empty string are a direct match
\* in both walks: a punctuation-only script word takes the timing of a
\* punctuation-only whisper word, and a punctuation-only reply word replaces
\* the text of a punctuation-only source word.  No step of either walk pairs
\* a punctuation-only word with a word whose normalized form is not empty.
C29_EmptyNormalizedForms ==
    [][/\ (AtPairB /\ PunctOnly(OriginalHere) /\ PunctOnly(WhisperAt(0).word)) =>
             /\ result' = Append(result, [word  |-> TextB(oi),
                                          start |-> WhisperAt(0).start,
                                          end   |-> WhisperAt(0).end])
             /\ wi' = wi + 1
             /\ oi' = oi + 1
       /\ (pcA = "walk" /\ oiA < Len(batchWords) /\ piA < Len(punctuatedBatch)
             /\ PunctOnly(SourceHere.word) /\ PunctOnly(ReplyAt(0))) =>
             /\ punctuatedWords' = Append(punctuatedWords, TokenWithReply(0))
             /\ oiA' = oiA + 1
             /\ piA' = piA + 1
             /\ matched' = matched + 1
       /\ (pcB = "walk" /\ pcB' = "walk" /\ wi' > wi) =>
             (PunctOnly(OriginalHere) <=> PunctOnly(whisperWords[wi'].word))
       /\ (pcA = "walk" /\ pcA' = "walk" /\ piA' > piA) =>
             (PunctOnly(SourceHere.word) <=> PunctOnly(punctuatedBatch[piA']))]_vars

\* The dots of the script took the timing of the dash of the whisper words,
\* and the next script word the timing of the next whisper word
C29_Witness ==
    /\ ReturnedB
    /\ Len(whisperWords) = 2
    /\ whisperWords[1].word = w_emdash
    /\ originalWords = <<w_dots, w_PrivetC>>
    /\ Len(result) = 2
    /\ result[1] = [word |-> w_dots, start |-> whisperWords[1].start,
                    end |-> whisperWords[1].end]
    /\ result[2].start = whisperWords[2].start

\* The dots of the reply replaced the dash of the source
C29_WitnessA ==
    /\ WalkEndedA
    /\ Len(batchWords) = 1
    /\ batchWords[1].word = Spaced(w_emdash)
    /\ punctuatedBatch = <<w_dots>>
    /\ matched = 1
    /\ PushedForBatch[1].word = Spaced(w_dots)

====
